---------------------------- MODULE Spec2Model ----------------------------
(***************************************************************************)
(* A model of the CNC machining intake application (src/app.py): the       *)
(* format lookup, the mesh and DXF metric extractors, the dual-axis        *)
(* scoring engine, the band classifier, the triage summary and the         *)
(* Analyze page that drives them.                                          *)
(*                                                                         *)
(* Conventions.                                                            *)
(*   - A Python value that may be None is a sequence of length <= 1:       *)
(*     None is <<>> and a present value x is <<x>>.                        *)
(*   - A Python dict with insertion order is a sequence of [key, value]    *)
(*     records.                                                            *)
(*   - A drawing length is held in ten-thousandths (the code rounds every  *)
(*     reported coordinate to 4 decimals); before rounding it is held in   *)
(*     hundred-thousandths.                                                *)
(***************************************************************************)
EXTENDS Integers, Sequences, FiniteSets, TLC

\* ------------------------------------------------------------------------
\* The module-level tables every analysis reads: SCORE_BASELINES,
\* RISK_BANDS, CONFIDENCE_BANDS, FORMAT_KB and DXF_TRACKED_TYPES as they are
\* at the moment, by name.
\* ------------------------------------------------------------------------

VARIABLE tables

\* ------------------------------------------------------------------------
\* Bounds of the model.
\* ------------------------------------------------------------------------

\* The largest number of connected components a modelled mesh has.
MaxComponents == 3

\* The largest SPLINE count of a hand-built drawing metrics record.
MaxSplines == 2

\* The largest number of analyses one session runs in a row.
MaxAnalyses == 2

\* ------------------------------------------------------------------------
\* Optional values and ordered dicts.
\* ------------------------------------------------------------------------

None == << >>

Some(x) == << x >>

IsNone(o) == o = None

Val(o) == o[1]

RECURSIVE DictFind(_, _, _)
\* The index of key k in dict d at or after position i, 0 when absent.
DictFind(d, k, i) ==
    IF i > Len(d) THEN 0
    ELSE IF d[i].key = k THEN i
    ELSE DictFind(d, k, i + 1)

\* k in d
DictHas(d, k) == DictFind(d, k, 1) # 0

\* d.get(k, default)
DictGet(d, k, default) ==
    IF DictHas(d, k) THEN d[DictFind(d, k, 1)].value ELSE default

\* d[k] = v : an existing key keeps its position, a new key goes last.
DictSet(d, k, v) ==
    IF DictHas(d, k)
    THEN [d EXCEPT ![DictFind(d, k, 1)] = [key |-> k, value |-> v]]
    ELSE Append(d, [key |-> k, value |-> v])

Max2(a, b) == IF a >= b THEN a ELSE b

Min2(a, b) == IF a <= b THEN a ELSE b

\* ------------------------------------------------------------------------
\* Dual-axis scoring: tables.
\* ------------------------------------------------------------------------

MappedClasses == {"B-Rep", "Surface", "Mesh", "Parametric", "2D Drawing"}

\* geometry_class -> (risk_baseline, confidence_baseline)
SCORE_BASELINES ==
    [gc \in MappedClasses |->
        CASE gc = "B-Rep"      -> << 15, 85 >>
          [] gc = "Surface"    -> << 40, 55 >>
          [] gc = "Mesh"       -> << 75, 25 >>
          [] gc = "Parametric" -> << 20, 80 >>
          [] gc = "2D Drawing" -> << 45, 50 >>]

\* A risk ladder whose third band carries the middle label of the format
\* table.
RiskBandsWithMedium ==
    << [ceiling |-> 20,  label |-> "Low",      color |-> "#2ecc71"],
       [ceiling |-> 40,  label |-> "Moderate", color |-> "#f1c40f"],
       [ceiling |-> 60,  label |-> "Medium",   color |-> "#e67e22"],
       [ceiling |-> 80,  label |-> "High",     color |-> "#e74c3c"],
       [ceiling |-> 100, label |-> "Severe",   color |-> "#c0392b"] >>

RISK_BANDS ==
    << [ceiling |-> 20,  label |-> "Low",      color |-> "#2ecc71"],
       [ceiling |-> 40,  label |-> "Moderate", color |-> "#f1c40f"],
       [ceiling |-> 60,  label |-> "Elevated", color |-> "#e67e22"],
       [ceiling |-> 80,  label |-> "High",     color |-> "#e74c3c"],
       [ceiling |-> 100, label |-> "Severe",   color |-> "#c0392b"] >>

CONFIDENCE_BANDS ==
    << [ceiling |-> 20,  label |-> "Very low",  color |-> "#c0392b"],
       [ceiling |-> 40,  label |-> "Low",       color |-> "#e74c3c"],
       [ceiling |-> 60,  label |-> "Medium",    color |-> "#e67e22"],
       [ceiling |-> 80,  label |-> "High",      color |-> "#f1c40f"],
       [ceiling |-> 100, label |-> "Very high", color |-> "#2ecc71"] >>

\* ------------------------------------------------------------------------
\* score_to_band
\* ------------------------------------------------------------------------

RECURSIVE BandScan(_, _, _)
\* The for loop of score_to_band from band i on: the first band whose
\* ceiling the score does not exceed, and the last band when there is none.
BandScan(bands, i, score) ==
    IF i > Len(bands)
    THEN [label |-> bands[Len(bands)].label, color |-> bands[Len(bands)].color]
    ELSE IF score <= bands[i].ceiling
    THEN [label |-> bands[i].label, color |-> bands[i].color]
    ELSE BandScan(bands, i + 1, score)

RECURSIVE BandScanStrict(_, _, _)
\* A scan that compares with < : a boundary score falls into the upper band.
BandScanStrict(bands, i, score) ==
    IF i > Len(bands)
    THEN [label |-> bands[Len(bands)].label, color |-> bands[Len(bands)].color]
    ELSE IF score < bands[i].ceiling
    THEN [label |-> bands[i].label, color |-> bands[i].color]
    ELSE BandScanStrict(bands, i + 1, score)

score_to_band_strict(score, kind) ==
    BandScanStrict(IF kind = "risk" THEN tables.RISK_BANDS
                   ELSE tables.CONFIDENCE_BANDS, 1, score)

score_to_band(score, kind) ==
    BandScan(IF kind = "risk" THEN tables.RISK_BANDS
             ELSE tables.CONFIDENCE_BANDS, 1, score)

\* ------------------------------------------------------------------------
\* compute_scores
\* ------------------------------------------------------------------------

\* Ten-thousandths per drawing unit: lengths are rounded to 4 decimals.
Scale == 10000

\* An explanation line: the rule that wrote it and the values it formats.
Explain(rule, gc, a, b) == [rule |-> rule, gc |-> gc, a |-> a, b |-> b]

\* f"{x:,.1f}" of a length held in ten-thousandths: tenths, ties to even.
Fmt1(x) ==
    LET q == x \div 1000
        r == x % 1000
    IN  IF r > 500 \/ (r = 500 /\ q % 2 = 1) THEN q + 1 ELSE q

\* A baseline lookup without the fallback pair: an unmapped class starts at
\* 0 and 0.
BaselineNoFallback(gc) ==
    LET b == IF gc \in DOMAIN tables.SCORE_BASELINES
             THEN tables.SCORE_BASELINES[gc]
             ELSE << 0, 0 >>
    IN  [risk |-> b[1], confidence |-> b[2],
         explanations |-> << Explain("baseline", gc, b[1], b[2]) >>]

\* SCORE_BASELINES.get(gc, (50, 50)) and the first explanation line.
Baseline(gc) ==
    LET b == IF gc \in DOMAIN tables.SCORE_BASELINES
             THEN tables.SCORE_BASELINES[gc]
             ELSE << 50, 50 >>
    IN  [risk |-> b[1], confidence |-> b[2],
         explanations |-> << Explain("baseline", gc, b[1], b[2]) >>]

\* An adjustment that applies the confidence delta with the wrong sign.
AdjustConfidenceUp(acc, dr, dc, line) ==
    [risk |-> acc.risk + dr, confidence |-> acc.confidence - dc,
     explanations |-> Append(acc.explanations, line)]

\* One adjustment: the deltas and one more explanation line.
Adjust(acc, dr, dc, line) ==
    [risk |-> acc.risk + dr, confidence |-> acc.confidence + dc,
     explanations |-> Append(acc.explanations, line)]

\* Mesh rules that write a line for every rule, fired or not.
MeshRulesNoOp(acc, m) ==
    LET cc == m.component_count
        tri == m.triangle_count
        a1 == IF ~m.is_watertight
              THEN Adjust(acc, 10, -10, Explain("non_watertight", "", 0, 0))
              ELSE Adjust(acc, 0, 0, Explain("non_watertight", "", 0, 0))
        a2 == IF ~IsNone(cc) /\ Val(cc) > 1
              THEN Adjust(a1, 8, 0, Explain("components", "", Val(cc), 0))
              ELSE a1
    IN  IF tri > 2000000
        THEN Adjust(a2, 10, 0, Explain("very_high_triangles", "", tri, 0))
        ELSE IF tri > 500000
        THEN Adjust(a2, 5, 0, Explain("high_triangles", "", tri, 0))
        ELSE a2

\* Mesh rules with two independent triangle tests: a mesh above 2,000,000
\* triangles collects the 10 and the 5.
MeshRulesBothTriangleRules(acc, m) ==
    LET cc == m.component_count
        tri == m.triangle_count
        a1 == IF ~m.is_watertight
              THEN Adjust(acc, 10, -10, Explain("non_watertight", "", 0, 0))
              ELSE acc
        a2 == IF ~IsNone(cc) /\ Val(cc) > 1
              THEN Adjust(a1, 8, 0, Explain("components", "", Val(cc), 0))
              ELSE a1
        a3 == IF tri > 2000000
              THEN Adjust(a2, 10, 0, Explain("very_high_triangles", "", tri, 0))
              ELSE a2
    IN  IF tri > 500000
        THEN Adjust(a3, 5, 0, Explain("high_triangles", "", tri, 0))
        ELSE a3

\* The mesh rules, in the order of the code.
MeshRules(acc, m) ==
    LET cc == m.component_count
        tri == m.triangle_count
        a1 == IF ~m.is_watertight
              THEN Adjust(acc, 10, -10, Explain("non_watertight", "", 0, 0))
              ELSE acc
        a2 == IF ~IsNone(cc) /\ Val(cc) > 1
              THEN Adjust(a1, 8, 0, Explain("components", "", Val(cc), 0))
              ELSE a1
    IN  IF tri > 2000000
        THEN Adjust(a2, 10, 0, Explain("very_high_triangles", "", tri, 0))
        ELSE IF tri > 500000
        THEN Adjust(a2, 5, 0, Explain("high_triangles", "", tri, 0))
        ELSE a2

\* Drawing rules that never look at the extents.
DxfRulesNoExtents(acc, d) ==
    LET spline_count == DictGet(d.counts_by_type, "SPLINE", 0)
    IN  IF spline_count > 0
        THEN Adjust(acc, 10, -5, Explain("splines", "", spline_count, 0))
        ELSE acc

\* Drawing rules that take the largest of all three sizes, the depth
\* included.
DxfRulesWithDepth(acc, d) ==
    LET spline_count == DictGet(d.counts_by_type, "SPLINE", 0)
        a1 == IF spline_count > 0
              THEN Adjust(acc, 10, -5, Explain("splines", "", spline_count, 0))
              ELSE acc
    IN  IF IsNone(d.extents) THEN a1
        ELSE LET size == Val(d.extents).size
                 max_dim == Max2(Max2(size[1], size[2]), size[3])
             IN  IF max_dim > 10000 * Scale
                 THEN Adjust(a1, 5, 0,
                             Explain("very_large_extents", "", Fmt1(max_dim), 0))
                 ELSE IF 0 < max_dim /\ max_dim < 1 * Scale
                 THEN Adjust(a1, 5, 0,
                             Explain("very_small_extents", "", max_dim, 0))
                 ELSE a1

\* Drawing rules that charge splines 25 points of risk.
DxfRulesHeavySplines(acc, d) ==
    LET spline_count == DictGet(d.counts_by_type, "SPLINE", 0)
        a1 == IF spline_count > 0
              THEN Adjust(acc, 25, -5, Explain("splines", "", spline_count, 0))
              ELSE acc
    IN  IF IsNone(d.extents) THEN a1
        ELSE LET size == Val(d.extents).size
                 max_dim == Max2(size[1], size[2])
             IN  IF max_dim > 10000 * Scale
                 THEN Adjust(a1, 5, 0,
                             Explain("very_large_extents", "", Fmt1(max_dim), 0))
                 ELSE IF 0 < max_dim /\ max_dim < 1 * Scale
                 THEN Adjust(a1, 5, 0,
                             Explain("very_small_extents", "", max_dim, 0))
                 ELSE a1

\* The drawing rules, in the order of the code.
DxfRules(acc, d) ==
    LET spline_count == DictGet(d.counts_by_type, "SPLINE", 0)
        a1 == IF spline_count > 0
              THEN Adjust(acc, 10, -5, Explain("splines", "", spline_count, 0))
              ELSE acc
    IN  IF IsNone(d.extents) THEN a1
        ELSE LET size == Val(d.extents).size
                 max_dim == Max2(size[1], size[2])
             IN  IF max_dim > 10000 * Scale
                 THEN Adjust(a1, 5, 0,
                             Explain("very_large_extents", "", Fmt1(max_dim), 0))
                 ELSE IF 0 < max_dim /\ max_dim < 1 * Scale
                 THEN Adjust(a1, 5, 0,
                             Explain("very_small_extents", "", max_dim, 0))
                 ELSE a1

\* risk, confidence and explanations as accumulated, before the clamp.
RawScores(info, mesh_metrics, dxf_metrics) ==
    LET a0 == Baseline(info.geometry_class)
        a1 == IF ~IsNone(mesh_metrics) THEN MeshRules(a0, Val(mesh_metrics))
              ELSE a0
    IN  IF ~IsNone(dxf_metrics) THEN DxfRules(a1, Val(dxf_metrics)) ELSE a1

\* A clamp that forgets the ceiling.
ClampFloorOnly(x) == Max2(0, x)

\* max(0, min(100, x))
Clamp(x) == Max2(0, Min2(100, x))

compute_scores(info, mesh_metrics, dxf_metrics) ==
    LET raw == RawScores(info, mesh_metrics, dxf_metrics)
    IN  [risk |-> Clamp(raw.risk), confidence |-> Clamp(raw.confidence),
         explanations |-> raw.explanations]

\* ------------------------------------------------------------------------
\* Rounding of reported coordinates.
\* ------------------------------------------------------------------------

\* round(x, 4) of a non-negative length held in hundred-thousandths: the
\* result is in ten-thousandths, ties to even.
Round4(x) ==
    LET q == x \div 10
        r == x % 10
    IN  IF r > 5 \/ (r = 5 /\ q % 2 = 1) THEN q + 1 ELSE q

Round4Vec(v) == << Round4(v[1]), Round4(v[2]), Round4(v[3]) >>

VecSub(a, b) == << a[1] - b[1], a[2] - b[2], a[3] - b[3] >>

\* ------------------------------------------------------------------------
\* parse_mesh_metrics
\* ------------------------------------------------------------------------

MESH_EXTENSIONS == {".stl", ".obj"}

COMPONENT_SPLIT_MAX_TRIANGLES == 1000000

\* Triangle counts around every threshold the code compares with.
TriCounts == {1, 500000, 500001, 1000000, 1000001, 2000000, 2000001}

\* What the mesh library makes of an uploaded byte buffer.  load is the
\* outcome of trimesh.load (an exception, a Trimesh, a Scene, or another
\* geometry type such as a point cloud) and dump the type that flattening a
\* Scene yields.  vertices and faces are the array lengths, bounds the
\* bounding box of the vertices the faces reference (None when no vertex is
\* referenced, as for a mesh without faces), pieces the number of connected
\* sub-meshes, and split_raises whether the connected-component pass fails.
MeshObject(load, dump, vertices, faces, watertight, pieces, split_raises) ==
    [load |-> load, dump |-> dump, vertices |-> vertices, faces |-> faces,
     bounds |-> IF faces = 0 THEN None
                ELSE Some([min |-> << 0, 0, 0 >>,
                           max |-> << 1234567, 1000000, 50004 >>]),
     is_watertight |-> watertight, pieces |-> pieces,
     split_raises |-> split_raises]

MeshFiles ==
    { MeshObject("raise", "Trimesh", 0, 0, FALSE, 0, FALSE),
      MeshObject("Other", "Trimesh", 3, 0, FALSE, 0, FALSE),
      MeshObject("Scene", "Other", 3, 0, FALSE, 0, FALSE) }
    \cup { MeshObject(l, "Trimesh", v, 0, FALSE, 0, FALSE) :
             l \in {"Trimesh", "Scene"}, v \in {0, 3} }
    \cup { MeshObject(l, "Trimesh", 3 * f, f, w, c, x) :
             l \in {"Trimesh", "Scene"}, f \in TriCounts, w \in BOOLEAN,
             c \in 1..MaxComponents, x \in BOOLEAN }

\* What an extractor hands back: a metrics dict, an error string, or (inside
\* the try block only) an exception on its way out.
ResultDict(metrics) == [kind |-> "dict", metrics |-> Some(metrics), message |-> ""]

ResultStr(message) == [kind |-> "str", metrics |-> None, message |-> message]

ResultRaise == [kind |-> "raise", metrics |-> None, message |-> ""]

\* The component count of a body that splits every mesh, whatever its size.
BodyCountNoCutoff(mesh) == Some(mesh.pieces)

\* A component count that is skipped from the cutoff on, the boundary
\* included.
BodyCountBelowCutoff(mesh) ==
    IF mesh.faces < COMPONENT_SPLIT_MAX_TRIANGLES THEN Some(mesh.pieces)
    ELSE None

\* A component count whose cutoff is ten times too high: meshes above
\* 2,000,000 triangles are still split.
BodyCountLateCutoff(mesh) ==
    IF mesh.faces <= 10 * COMPONENT_SPLIT_MAX_TRIANGLES THEN Some(mesh.pieces)
    ELSE None

\* tri_count <= COMPONENT_SPLIT_MAX_TRIANGLES ? len(mesh.split(...)) : None
BodyCount(mesh) ==
    IF mesh.faces <= COMPONENT_SPLIT_MAX_TRIANGLES THEN Some(mesh.pieces)
    ELSE None

\* Bounds taken over the whole vertex array, referenced by a face or not.
BoundsOfAllVertices(mesh) ==
    IF mesh.vertices = 0 THEN None
    ELSE Some([min |-> << 0, 0, 0 >>, max |-> << 1234567, 1000000, 50004 >>])

\* mesh.bounds
MeshBounds(mesh) == mesh.bounds

\* mesh.bounds is None or len(mesh.vertices) == 0
NoGeometry(mesh) == IsNone(MeshBounds(mesh)) \/ mesh.vertices = 0

\* The body of the try block of parse_mesh_metrics.
ParseMeshBody(mesh, file_type) ==
    IF mesh.load = "raise" THEN ResultRaise
    ELSE IF (IF mesh.load = "Scene" THEN mesh.dump ELSE mesh.load) # "Trimesh"
    THEN ResultStr("Unexpected mesh type after loading")
    ELSE IF NoGeometry(mesh)
    THEN ResultStr("Mesh contains no geometry (0 vertices).")
    ELSE LET bb_min == Val(MeshBounds(mesh)).min
             bb_max == Val(MeshBounds(mesh)).max
             dims == VecSub(bb_max, bb_min)
             tri_count == mesh.faces
         IN  IF tri_count <= COMPONENT_SPLIT_MAX_TRIANGLES /\ mesh.split_raises
             THEN ResultRaise
             ELSE ResultDict([triangle_count |-> tri_count,
                              bbox_dims |-> Round4Vec(dims),
                              bbox_min |-> Round4Vec(bb_min),
                              bbox_max |-> Round4Vec(bb_max),
                              is_watertight |-> mesh.is_watertight,
                              component_count |-> BodyCount(mesh)])

\* A wrapper without the except clause: the exception leaves the extractor.
CatchNothing(result, prefix) == result

\* except Exception as exc: return f"<prefix>: {exc}"
CatchAll(result, prefix) ==
    IF result.kind = "raise" THEN ResultStr(prefix) ELSE result

parse_mesh_metrics(file_bytes, file_type) ==
    CatchAll(ParseMeshBody(file_bytes, file_type), "Mesh parsing failed")

\* ------------------------------------------------------------------------
\* parse_dxf_metrics
\* ------------------------------------------------------------------------

DXF_TRACKED_TYPES ==
    << "LINE", "ARC", "CIRCLE", "LWPOLYLINE", "POLYLINE", "SPLINE", "TEXT",
       "MTEXT" >>

\* The largest number of model-space entities of a modelled drawing.
MaxEntities == 2

\* Entity types of the modelled drawings: tracked ones, in an order other
\* than the allow-list's, and one the allow-list does not hold.
EntityTypes == {"SPLINE", "LINE", "HATCH"}

Layers == {"0", "CUT"}

Entities == [type : EntityTypes, layer : Layers]

EntityLists == UNION { [1..n -> Entities] : n \in 0..MaxEntities }

\* Bounding boxes the drawing library reports, as the far corner of a box
\* whose near corner is the origin, in hundred-thousandths: 0.5 x 0.2,
\* 0.99996 x 0.5 (1.0 once rounded), 200 x 100, 10000.00004 x 200 (10000.0
\* once rounded), 15000 x 200, and 200 x 100 x 5.
BoxCorners ==
    { << 50000, 20000, 0 >>, << 99996, 50000, 0 >>,
      << 20000000, 10000000, 0 >>, << 1000000004, 20000000, 0 >>,
      << 1500000000, 20000000, 0 >>, << 20000000, 10000000, 500000 >> }

\* What the drawing library makes of an uploaded byte buffer.  utf8 tells
\* whether the bytes are valid UTF-8, read is the outcome of ezdxf.read on
\* the decoded text, entities the model space, and bbox the outcome of the
\* bounding-box pass: an exception, no data, or the far corner of the box.
DxfObject(utf8, read, entities, bbox, corner) ==
    [utf8 |-> utf8, read |-> read, entities |-> entities, bbox |-> bbox,
     extmin |-> << 0, 0, 0 >>, extmax |-> corner]

DxfFiles ==
    { DxfObject(u, "raise", << >>, "nodata", << 0, 0, 0 >>) : u \in BOOLEAN }
    \cup { DxfObject(u, "ok", es, b, << 0, 0, 0 >>) :
             u \in BOOLEAN, es \in EntityLists, b \in {"raise", "nodata"} }
    \cup { DxfObject(u, "ok", es, "data", c) :
             u \in BOOLEAN, es \in EntityLists \ {<< >>}, c \in BoxCorners }

\* In-membership of the allow-list.
IsTracked(dtype) ==
    \E i \in 1..Len(tables.DXF_TRACKED_TYPES) : tables.DXF_TRACKED_TYPES[i] = dtype

RECURSIVE CountEntities(_, _, _)
\* The for loop over the model space from entity i on.  acc holds total,
\* counts_by_type (in first-seen order) and layers.
CountEntities(entities, i, acc) ==
    IF i > Len(entities) THEN acc
    ELSE LET dtype == entities[i].type
             counts == IF IsTracked(dtype)
                       THEN DictSet(acc.counts_by_type, dtype,
                                    DictGet(acc.counts_by_type, dtype, 0) + 1)
                       ELSE acc.counts_by_type
         IN  CountEntities(entities, i + 1,
                 [total |-> acc.total + 1, counts_by_type |-> counts,
                  layers |-> acc.layers \cup {entities[i].layer}])

\* A result that keeps the counts in the order the types were first met.
InEncounterOrder(counts, i) == counts

RECURSIVE InTrackedOrder(_, _)
\* {t: counts[t] for t in DXF_TRACKED_TYPES if t in counts}, from type i on.
InTrackedOrder(counts, i) ==
    IF i > Len(tables.DXF_TRACKED_TYPES) THEN << >>
    ELSE IF DictHas(counts, tables.DXF_TRACKED_TYPES[i])
    THEN << [key |-> tables.DXF_TRACKED_TYPES[i],
             value |-> DictGet(counts, tables.DXF_TRACKED_TYPES[i], 0)] >>
         \o InTrackedOrder(counts, i + 1)
    ELSE InTrackedOrder(counts, i + 1)

\* A decoding step without the fallback: bytes that are not UTF-8 raise
\* UnicodeDecodeError inside the try block.
DecodeUtf8Only(doc) ==
    IF doc.utf8 THEN [kind |-> "text", codec |-> "utf-8"]
    ELSE [kind |-> "raise", codec |-> "utf-8"]

\* file_bytes.decode("utf-8") and, on UnicodeDecodeError,
\* file_bytes.decode("latin-1"): Latin-1 maps each of the 256 byte values to
\* a character, so the second decoding yields a text for every buffer.
DecodeText(doc) ==
    IF doc.utf8 THEN [kind |-> "text", codec |-> "utf-8"]
    ELSE [kind |-> "text", codec |-> "latin-1"]

\* The body of the try block of parse_dxf_metrics.
ParseDxfBody(doc) ==
    IF DecodeText(doc).kind = "raise" THEN ResultRaise
    ELSE IF doc.read = "raise" THEN ResultRaise
    ELSE LET acc == CountEntities(doc.entities, 1,
                        [total |-> 0, counts_by_type |-> << >>, layers |-> {}])
             ext_size == VecSub(doc.extmax, doc.extmin)
             extents == IF doc.bbox = "data"
                        THEN Some([min |-> Round4Vec(doc.extmin),
                                   max |-> Round4Vec(doc.extmax),
                                   size |-> Round4Vec(ext_size)])
                        ELSE None
         IN  IF doc.bbox = "raise" THEN ResultRaise
             ELSE ResultDict([total_entities |-> acc.total,
                              counts_by_type |->
                                  InTrackedOrder(acc.counts_by_type, 1),
                              layer_count |-> Cardinality(acc.layers),
                              extents |-> extents])

parse_dxf_metrics(file_bytes) ==
    CatchAll(ParseDxfBody(file_bytes), "DXF parsing failed")

\* ------------------------------------------------------------------------
\* The format table and get_format_info
\* ------------------------------------------------------------------------

EXTENSION_TO_FORMAT ==
    << [key |-> ".stp", value |-> ".step"], [key |-> ".igs", value |-> ".iges"] >>

FormatEntry(gc, risk) == [geometry_class |-> gc, quote_risk_baseline |-> risk]

\* The entries of FORMAT_KB, with the fields the analysis reads.
FORMAT_KB ==
    << [key |-> ".step",    value |-> FormatEntry("B-Rep", "Low")],
       [key |-> ".iges",    value |-> FormatEntry("Surface", "Medium")],
       [key |-> ".stl",     value |-> FormatEntry("Mesh", "High")],
       [key |-> ".obj",     value |-> FormatEntry("Mesh", "High")],
       [key |-> ".sldprt",  value |-> FormatEntry("Parametric", "Medium")],
       [key |-> ".sldasm",  value |-> FormatEntry("Parametric", "Medium")],
       [key |-> ".prt",     value |-> FormatEntry("Parametric", "Medium")],
       [key |-> ".catpart", value |-> FormatEntry("Parametric", "Medium")],
       [key |-> ".dwg",     value |-> FormatEntry("2D Drawing", "Medium")],
       [key |-> ".dxf",     value |-> FormatEntry("2D Drawing", "Medium")] >>

\* File name suffixes of the modelled uploads: every key of the table, the
\* aliases, upper-case spellings, a suffix no table holds and no suffix.
Suffixes ==
    { FORMAT_KB[i].key : i \in 1..Len(FORMAT_KB) }
    \cup { ".stp", ".igs", ".STL", ".Dxf", ".STP", ".xyz", "" }

\* str.lower() on the modelled suffixes.
Lower(suffix) ==
    CASE suffix = ".STL" -> ".stl"
      [] suffix = ".Dxf" -> ".dxf"
      [] suffix = ".STP" -> ".stp"
      [] OTHER -> suffix

\* A lookup that hands out a default profile for a suffix it does not know.
get_format_info_default(extension) ==
    LET ext == Lower(extension)
        canonical == DictGet(EXTENSION_TO_FORMAT, ext, ext)
    IN  IF DictHas(tables.FORMAT_KB, canonical)
        THEN Some(DictGet(tables.FORMAT_KB, canonical, FormatEntry("", "")))
        ELSE Some(FormatEntry("Unknown", "Medium"))

\* FORMAT_KB.get(EXTENSION_TO_FORMAT.get(ext, ext)) with ext lower-cased.
get_format_info(extension) ==
    LET ext == Lower(extension)
        canonical == DictGet(EXTENSION_TO_FORMAT, ext, ext)
    IN  IF DictHas(tables.FORMAT_KB, canonical)
        THEN Some(DictGet(tables.FORMAT_KB, canonical, FormatEntry("", "")))
        ELSE None

\* ------------------------------------------------------------------------
\* The module-level tables
\* ------------------------------------------------------------------------

\* The tables as the module's top-level assignments leave them.
ModuleTables ==
    [SCORE_BASELINES |-> SCORE_BASELINES,
     RISK_BANDS |-> RISK_BANDS,
     CONFIDENCE_BANDS |-> CONFIDENCE_BANDS,
     FORMAT_KB |-> FORMAT_KB,
     DXF_TRACKED_TYPES |-> DXF_TRACKED_TYPES]

\* A scoring that stores the adjusted pair back under the geometry class,
\* as an in-place update of a mutable baseline entry would.
TablesAfterScoringInPlace(t, info, risk, confidence) ==
    [t EXCEPT !.SCORE_BASELINES =
        [gc \in DOMAIN @ |->
            IF gc = info.geometry_class THEN << risk, confidence >> ELSE @[gc]]]

\* The tables after a call of compute_scores: the function reads
\* SCORE_BASELINES with .get, unpacks the tuple into its own names risk and
\* confidence and rebinds only those; it assigns to no table.
TablesAfterScoring(t, info, risk, confidence) == t

\* ------------------------------------------------------------------------
\* compute_contextual_risk and build_triage_summary
\* ------------------------------------------------------------------------

\* A resolver that has no table entry for any file and falls back to
\* "Medium" for every score.
compute_contextual_risk_medium(risk_score) == "Medium"

compute_contextual_risk(risk_score) == score_to_band(risk_score, "risk").label

\* The materials of the modelled uploads: one with a parenthetical note and
\* the unknown one (the long dash of the source's names is written -).
Materials == {"Aluminum - 6061-T6 (default)", "Other / Unknown"}

\* material.split(" (")[0].strip() when the material holds " (".
material_triage_label(material) ==
    IF material = "Aluminum - 6061-T6 (default)" THEN "Aluminum - 6061-T6"
    ELSE material

\* str.lower() on the risk labels.
LowerLabel(label) ==
    CASE label = "Low" -> "low"
      [] label = "Medium" -> "medium"
      [] label = "Moderate" -> "moderate"
      [] label = "Elevated" -> "elevated"
      [] label = "High" -> "high"
      [] label = "Severe" -> "severe"
      [] OTHER -> label

\* Issue flags that take one counted body for several.
TriageIssuesFromOneBody(mesh_metrics, dxf_metrics) ==
    (IF ~IsNone(mesh_metrics) /\ ~Val(mesh_metrics).is_watertight
     THEN << [flag |-> "mesh is not watertight", n |-> 0] >> ELSE << >>)
    \o (IF ~IsNone(mesh_metrics)
           /\ ~IsNone(Val(mesh_metrics).component_count)
           /\ Val(Val(mesh_metrics).component_count) >= 1
        THEN << [flag |-> "disconnected components detected",
                 n |-> Val(Val(mesh_metrics).component_count)] >>
        ELSE << >>)
    \o (IF ~IsNone(dxf_metrics)
           /\ DictGet(Val(dxf_metrics).counts_by_type, "SPLINE", 0) > 0
        THEN << [flag |-> "splines present that may need conversion for CAM",
                 n |-> 0] >>
        ELSE << >>)

\* Issue flags that leave the drawing's splines out.
TriageIssuesNoSplines(mesh_metrics, dxf_metrics) ==
    (IF ~IsNone(mesh_metrics) /\ ~Val(mesh_metrics).is_watertight
     THEN << [flag |-> "mesh is not watertight", n |-> 0] >> ELSE << >>)
    \o (IF ~IsNone(mesh_metrics)
           /\ ~IsNone(Val(mesh_metrics).component_count)
           /\ Val(Val(mesh_metrics).component_count) > 1
        THEN << [flag |-> "disconnected components detected",
                 n |-> Val(Val(mesh_metrics).component_count)] >>
        ELSE << >>)

\* The issue flags of sentence 1, in the order the code appends them.
TriageIssues(mesh_metrics, dxf_metrics) ==
    (IF ~IsNone(mesh_metrics) /\ ~Val(mesh_metrics).is_watertight
     THEN << [flag |-> "mesh is not watertight", n |-> 0] >> ELSE << >>)
    \o (IF ~IsNone(mesh_metrics)
           /\ ~IsNone(Val(mesh_metrics).component_count)
           /\ Val(Val(mesh_metrics).component_count) > 1
        THEN << [flag |-> "disconnected components detected",
                 n |-> Val(Val(mesh_metrics).component_count)] >>
        ELSE << >>)
    \o (IF ~IsNone(dxf_metrics)
           /\ DictGet(Val(dxf_metrics).counts_by_type, "SPLINE", 0) > 0
        THEN << [flag |-> "splines present that may need conversion for CAM",
                 n |-> 0] >>
        ELSE << >>)

\* A next ask without the drawing branch: a drawing gets the sentence of
\* the other classes.
NextAskNoDrawingBranch(gc, unknown_material) ==
    IF gc = "Mesh"
    THEN IF unknown_material
         THEN "Confirm units and request STEP or native CAD; also confirm material"
         ELSE "Confirm units and request STEP or native CAD"
    ELSE IF unknown_material
         THEN "Confirm tolerances, surface finish, material"
         ELSE "Confirm tolerances and surface finish"

\* Sentence 2: the next ask, by geometry class and unknown material.
NextAsk(gc, unknown_material) ==
    IF gc = "Mesh"
    THEN IF unknown_material
         THEN "Confirm units and request STEP or native CAD; also confirm material"
         ELSE "Confirm units and request STEP or native CAD"
    ELSE IF gc = "2D Drawing"
    THEN IF unknown_material
         THEN "Confirm dimensions, tolerances, thickness; also confirm material"
         ELSE "Confirm dimensions, tolerances, thickness"
    ELSE IF unknown_material
         THEN "Confirm tolerances, surface finish, material"
         ELSE "Confirm tolerances and surface finish"

\* The triage paragraph: sentence 1 as its parts, sentence 2 as its text.
build_triage_summary(info, contextual_risk, material, mesh_metrics, dxf_metrics) ==
    LET gc == info.geometry_class
        baseline == info.quote_risk_baseline
    IN  [material |-> material_triage_label(material),
         geometry_class |-> gc,
         baseline |-> LowerLabel(baseline),
         adjusted_to |-> IF contextual_risk = baseline THEN None
                         ELSE Some(LowerLabel(contextual_risk)),
         issues |-> TriageIssues(mesh_metrics, dxf_metrics),
         next_ask |-> NextAsk(gc, material = "Other / Unknown")]

\* ------------------------------------------------------------------------
\* render_mesh_metrics
\* ------------------------------------------------------------------------

\* A display that writes a missing count as the number 0.
render_mesh_metrics_or_zero(metrics) ==
    [triangle_count |-> metrics.triangle_count,
     watertight |-> IF metrics.is_watertight THEN "Yes" ELSE "No",
     components |-> [text |-> "", number |-> Some(0)]]

\* What the metrics section writes under "Triangle count", "Watertight" and
\* "Disconnected components": str(component_count) as the number it
\* prints, or the skip notice.
render_mesh_metrics(metrics) ==
    [triangle_count |-> metrics.triangle_count,
     watertight |-> IF metrics.is_watertight THEN "Yes" ELSE "No",
     components |-> IF ~IsNone(metrics.component_count)
                    THEN [text |-> "", number |-> metrics.component_count]
                    ELSE [text |-> "(skipped for performance)", number |-> None]]

\* ------------------------------------------------------------------------
\* The names of the script run
\* ------------------------------------------------------------------------

VARIABLES
    pc,               \* position of the Analyze page's script run
    material,         \* the material select box
    uploaded_file,    \* the file uploader: None or Some([name, content])
    extension,        \* lower-cased suffix of the file name
    info,             \* get_format_info(extension)
    mesh_metrics,     \* None or the mesh metrics dict
    dxf_metrics,      \* None or the drawing metrics dict
    mesh_error,       \* None or the mesh extractor's error string
    dxf_error,        \* None or the drawing extractor's error string
    risk_score,
    confidence_score,
    explanations,
    contextual_risk,  \* None or the label of compute_contextual_risk
    triage_text,      \* None or the triage paragraph
    scoring_section,  \* None or what render_scoring_section wrote
    metrics_section,  \* None or what render_mesh_metrics wrote
    screen,           \* the sections rendered so far, in order
    calls,            \* the functions the page has called so far, in order
    analyses,         \* the number of script runs started so far
    call,             \* a direct call of one function: its name and arguments
    ret               \* None or the value that call returned

locals ==
    << extension, info, mesh_metrics, dxf_metrics, mesh_error, dxf_error,
       risk_score, confidence_score, explanations, contextual_risk,
       triage_text, scoring_section, metrics_section, screen, calls >>

page == << pc, material, uploaded_file, locals, analyses >>

vars == << page, call, ret, tables >>

\* The names of a fresh script run: nothing assigned, nothing rendered.
FreshLocals ==
    /\ extension = ""
    /\ info = None
    /\ mesh_metrics = None
    /\ dxf_metrics = None
    /\ mesh_error = None
    /\ dxf_error = None
    /\ risk_score = 0
    /\ confidence_score = 0
    /\ explanations = << >>
    /\ contextual_risk = None
    /\ triage_text = None
    /\ scoring_section = None
    /\ metrics_section = None
    /\ screen = << >>
    /\ calls = << >>

\* No direct call is under way.
NoCall ==
    [fn |-> "none", score |-> 0, kind |-> "risk",
     info |-> FormatEntry("", ""), mesh_metrics |-> None, dxf_metrics |-> None]

\* The page waits for an upload.
PageIdle ==
    /\ pc = "idle"
    /\ material \in Materials
    /\ uploaded_file = None
    /\ FreshLocals

Init ==
    /\ PageIdle
    /\ call = NoCall
    /\ ret = None
    /\ tables = ModuleTables
    /\ analyses = 0

\* ------------------------------------------------------------------------
\* The Analyze page
\* ------------------------------------------------------------------------

\* What the libraries make of a file's bytes.  A file is read by the
\* extractor its suffix selects; the other reading is not modelled.
Contents(suffix) ==
    IF Lower(suffix) \in MESH_EXTENSIONS
    THEN { [as_mesh |-> Some(m), as_dxf |-> None] : m \in MeshFiles }
    ELSE IF Lower(suffix) = ".dxf"
    THEN { [as_mesh |-> None, as_dxf |-> Some(d)] : d \in DxfFiles }
    ELSE { [as_mesh |-> None, as_dxf |-> None] }

\* The user picks a material and uploads a file: a script run starts.
Upload ==
    /\ pc = "idle"
    /\ analyses < MaxAnalyses
    /\ analyses' = analyses + 1
    /\ \E m \in Materials, suffix \in Suffixes :
         \E content \in Contents(suffix) :
            /\ material' = m
            /\ uploaded_file' = Some([name |-> suffix, content |-> content])
    /\ pc' = "classify"
    /\ UNCHANGED << locals, call, ret, tables >>

\* A classification that looks into the file: a drawing whose bounding box
\* has depth is taken for a solid.
ClassifyByContent ==
    /\ pc = "classify"
    /\ extension' = Lower(Val(uploaded_file).name)
    /\ info' = IF ~IsNone(Val(uploaded_file).content.as_dxf)
                  /\ Val(Val(uploaded_file).content.as_dxf).extmax[3] > 0
               THEN Some(FormatEntry("B-Rep", "Low"))
               ELSE get_format_info(extension')
    /\ calls' = Append(calls, "get_format_info")
    /\ pc' = IF ~IsNone(info') THEN "extract" ELSE "unknown"
    /\ UNCHANGED << material, uploaded_file, mesh_metrics, dxf_metrics,
                    mesh_error, dxf_error, risk_score, confidence_score,
                    explanations, contextual_risk, triage_text,
                    scoring_section, screen, metrics_section,
                    tables, analyses, call, ret >>

\* filename, extension and info; the branch on info.
Classify ==
    /\ pc = "classify"
    /\ extension' = Lower(Val(uploaded_file).name)
    /\ info' = get_format_info(extension')
    /\ calls' = Append(calls, "get_format_info")
    /\ pc' = IF ~IsNone(info') THEN "extract" ELSE "unknown"
    /\ UNCHANGED << material, uploaded_file, mesh_metrics, dxf_metrics,
                    mesh_error, dxf_error, risk_score, confidence_score,
                    explanations, contextual_risk, triage_text,
                    scoring_section, screen, metrics_section,
                    tables, analyses, call, ret >>

\* An extraction step that gives up on the analysis when extraction fails.
ExtractOrStop(result, fn) ==
    /\ calls' = Append(calls, fn)
    /\ pc' = IF result.kind = "dict" THEN "score" ELSE "done"
    /\ mesh_metrics' = IF fn = "parse_mesh_metrics" THEN result.metrics ELSE None
    /\ dxf_metrics' = IF fn = "parse_dxf_metrics" THEN result.metrics ELSE None
    /\ mesh_error' = IF fn = "parse_mesh_metrics" /\ result.kind # "dict"
                     THEN Some(result.message) ELSE None
    /\ dxf_error' = IF fn = "parse_dxf_metrics" /\ result.kind # "dict"
                    THEN Some(result.message) ELSE None

\* A page that keeps the error string next to a default metrics dict when
\* extraction fails.
TakeResultWithDefault(result, fn) ==
    LET default == Some([triangle_count |-> 0, bbox_dims |-> << 0, 0, 0 >>,
                         bbox_min |-> << 0, 0, 0 >>, bbox_max |-> << 0, 0, 0 >>,
                         is_watertight |-> TRUE, component_count |-> None])
    IN  /\ calls' = Append(calls, fn)
        /\ pc' = IF result.kind = "raise" THEN "crashed" ELSE "score"
        /\ mesh_metrics' = IF fn = "parse_mesh_metrics"
                           THEN (IF result.kind = "dict" THEN result.metrics
                                 ELSE default)
                           ELSE None
        /\ dxf_metrics' = IF fn = "parse_dxf_metrics" THEN result.metrics ELSE None
        /\ mesh_error' = IF fn = "parse_mesh_metrics" /\ result.kind = "str"
                         THEN Some(result.message) ELSE None
        /\ dxf_error' = IF fn = "parse_dxf_metrics" /\ result.kind = "str"
                        THEN Some(result.message) ELSE None

\* The page takes the extractor's result: a dict is the metrics, anything
\* else the error; an exception leaving the extractor ends the script run.
TakeResult(result, fn) ==
    /\ calls' = Append(calls, fn)
    /\ pc' = IF result.kind = "raise" THEN "crashed" ELSE "score"
    /\ mesh_metrics' = IF fn = "parse_mesh_metrics" THEN result.metrics ELSE None
    /\ dxf_metrics' = IF fn = "parse_dxf_metrics" THEN result.metrics ELSE None
    /\ mesh_error' = IF fn = "parse_mesh_metrics" /\ result.kind = "str"
                     THEN Some(result.message) ELSE None
    /\ dxf_error' = IF fn = "parse_dxf_metrics" /\ result.kind = "str"
                    THEN Some(result.message) ELSE None

\* An extraction block that hands a .dwg file to the DXF extractor, which
\* cannot read it.
ExtractDwgToo ==
    /\ pc = "extract"
    /\ IF extension \in MESH_EXTENSIONS
       THEN TakeResult(parse_mesh_metrics(Val(Val(uploaded_file).content.as_mesh),
                                          extension),
                       "parse_mesh_metrics")
       ELSE IF extension = ".dxf"
       THEN TakeResult(parse_dxf_metrics(Val(Val(uploaded_file).content.as_dxf)),
                       "parse_dxf_metrics")
       ELSE IF extension = ".dwg"
       THEN TakeResult(CatchAll(ResultRaise, "DXF parsing failed"),
                       "parse_dxf_metrics")
       ELSE /\ pc' = "score"
            /\ UNCHANGED << mesh_metrics, dxf_metrics, mesh_error, dxf_error,
                            calls >>
    /\ UNCHANGED << material, uploaded_file, extension, info, risk_score,
                    confidence_score, explanations, contextual_risk,
                    triage_text, scoring_section, screen, metrics_section,
                    tables, analyses, call, ret >>

\* The extraction block: the extractor the suffix selects, if any.
Extract ==
    /\ pc = "extract"
    /\ IF extension \in MESH_EXTENSIONS
       THEN TakeResult(parse_mesh_metrics(Val(Val(uploaded_file).content.as_mesh),
                                          extension),
                       "parse_mesh_metrics")
       ELSE IF extension = ".dxf"
       THEN TakeResult(parse_dxf_metrics(Val(Val(uploaded_file).content.as_dxf)),
                       "parse_dxf_metrics")
       ELSE /\ pc' = "score"
            /\ UNCHANGED << mesh_metrics, dxf_metrics, mesh_error, dxf_error,
                            calls >>
    /\ UNCHANGED << material, uploaded_file, extension, info, risk_score,
                    confidence_score, explanations, contextual_risk,
                    triage_text, scoring_section, screen, metrics_section,
                    tables, analyses, call, ret >>

\* risk_score, confidence_score, explanations = compute_scores(...)
Score ==
    /\ pc = "score"
    /\ LET r == compute_scores(Val(info), mesh_metrics, dxf_metrics)
       IN  /\ risk_score' = r.risk
           /\ confidence_score' = r.confidence
           /\ explanations' = r.explanations
           /\ tables' = TablesAfterScoring(tables, Val(info), r.risk, r.confidence)
    /\ calls' = Append(calls, "compute_scores")
    /\ pc' = "context"
    /\ UNCHANGED << material, uploaded_file, extension, info, mesh_metrics,
                    dxf_metrics, mesh_error, dxf_error, contextual_risk,
                    triage_text, scoring_section, screen, metrics_section,
                    analyses, call, ret >>

\* contextual_risk = compute_contextual_risk(risk_score)
Context ==
    /\ pc = "context"
    /\ contextual_risk' = Some(compute_contextual_risk(risk_score))
    /\ calls' = Append(calls, "compute_contextual_risk")
    /\ pc' = "render_card"
    /\ UNCHANGED << material, uploaded_file, extension, info, mesh_metrics,
                    dxf_metrics, mesh_error, dxf_error, risk_score,
                    confidence_score, explanations, triage_text,
                    scoring_section, screen, metrics_section,
                    tables, analyses, call, ret >>

\* render_summary_card and render_material_section
RenderCard ==
    /\ pc = "render_card"
    /\ screen' = screen \o << "summary_card", "material_section" >>
    /\ pc' = "render_scoring"
    /\ UNCHANGED << material, uploaded_file, extension, info, mesh_metrics,
                    dxf_metrics, mesh_error, dxf_error, risk_score,
                    confidence_score, explanations, contextual_risk,
                    triage_text, scoring_section, calls, metrics_section,
                    tables, analyses, call, ret >>

\* A scoring section that is left out when an extraction error is pending,
\* so that the warning stands in its place.
RenderScoringUnlessError ==
    /\ pc = "render_scoring"
    /\ scoring_section' =
           IF ~IsNone(mesh_error) \/ ~IsNone(dxf_error) THEN None
           ELSE Some([risk_score |-> risk_score,
                      risk_label |-> score_to_band(risk_score, "risk").label,
                      confidence_score |-> confidence_score,
                      conf_label |-> score_to_band(confidence_score, "confidence").label,
                      drivers |-> explanations])
    /\ screen' = IF ~IsNone(mesh_error) \/ ~IsNone(dxf_error) THEN screen
                 ELSE Append(screen, "scoring")
    /\ pc' = "triage"
    /\ UNCHANGED << material, uploaded_file, extension, info, mesh_metrics,
                    dxf_metrics, mesh_error, dxf_error, risk_score,
                    confidence_score, explanations, contextual_risk,
                    triage_text, calls, metrics_section,
                    tables, analyses, call, ret >>

\* render_scoring_section: both scores with their bands, then the drivers.
RenderScoring ==
    /\ pc = "render_scoring"
    /\ scoring_section' =
           Some([risk_score |-> risk_score,
                 risk_label |-> score_to_band(risk_score, "risk").label,
                 confidence_score |-> confidence_score,
                 conf_label |-> score_to_band(confidence_score, "confidence").label,
                 drivers |-> explanations])
    /\ screen' = Append(screen, "scoring")
    /\ pc' = "triage"
    /\ UNCHANGED << material, uploaded_file, extension, info, mesh_metrics,
                    dxf_metrics, mesh_error, dxf_error, risk_score,
                    confidence_score, explanations, contextual_risk,
                    triage_text, calls, metrics_section,
                    tables, analyses, call, ret >>

\* triage_text = build_triage_summary(...), shown twice
Triage ==
    /\ pc = "triage"
    /\ triage_text' = Some(build_triage_summary(Val(info), Val(contextual_risk),
                                                material, mesh_metrics,
                                                dxf_metrics))
    /\ calls' = Append(calls, "build_triage_summary")
    /\ screen' = Append(screen, "triage_summary")
    /\ pc' = "render_metrics"
    /\ UNCHANGED << material, uploaded_file, extension, info, mesh_metrics,
                    dxf_metrics, mesh_error, dxf_error, risk_score,
                    confidence_score, explanations, contextual_risk,
                    scoring_section, metrics_section,
                    tables, analyses, call, ret >>

\* The extracted metrics, or the extractor's error as a warning.
RenderMetrics ==
    /\ pc = "render_metrics"
    /\ screen' = screen
           \o (IF ~IsNone(mesh_metrics) THEN << "mesh_metrics" >>
               ELSE IF ~IsNone(mesh_error) THEN << "warning" >>
               ELSE << >>)
           \o (IF ~IsNone(dxf_metrics) THEN << "dxf_metrics" >>
               ELSE IF ~IsNone(dxf_error) THEN << "warning" >>
               ELSE << >>)
    /\ metrics_section' =
           IF ~IsNone(mesh_metrics)
           THEN Some(render_mesh_metrics(Val(mesh_metrics)))
           ELSE metrics_section
    /\ pc' = "done"
    /\ UNCHANGED << material, uploaded_file, extension, info, mesh_metrics,
                    dxf_metrics, mesh_error, dxf_error, risk_score,
                    confidence_score, explanations, contextual_risk,
                    triage_text, scoring_section, calls, tables, analyses, call, ret >>

\* The else branch of 'if info': the unknown-format notice.
RenderUnknown ==
    /\ pc = "unknown"
    /\ screen' = Append(screen, "unknown_format")
    /\ pc' = "done"
    /\ UNCHANGED << material, uploaded_file, extension, info, mesh_metrics,
                    dxf_metrics, mesh_error, dxf_error, risk_score,
                    confidence_score, explanations, contextual_risk,
                    triage_text, scoring_section, calls, metrics_section,
                    tables, analyses, call, ret >>

\* The user removes the file: the next script run renders no analysis and
\* keeps nothing of the last one.
Clear ==
    /\ pc \in {"done", "crashed"}
    /\ pc' = "idle"
    /\ uploaded_file' = None
    /\ extension' = ""
    /\ info' = None
    /\ mesh_metrics' = None
    /\ dxf_metrics' = None
    /\ mesh_error' = None
    /\ dxf_error' = None
    /\ risk_score' = 0
    /\ confidence_score' = 0
    /\ explanations' = << >>
    /\ contextual_risk' = None
    /\ triage_text' = None
    /\ scoring_section' = None
    /\ metrics_section' = None
    /\ screen' = << >>
    /\ calls' = << >>
    /\ UNCHANGED << material, analyses, call, ret, tables >>

\* Another session's script run scores its own file between two steps of
\* this one.  The sessions share the module's tables and nothing else.
OtherSession ==
    /\ \E r \in {85} : \E c \in {15} :
         tables' = TablesAfterScoring(tables, FormatEntry("Mesh", "High"), r, c)
    /\ UNCHANGED << page, call, ret >>

Next ==
    \/ Upload
    \/ Classify
    \/ Extract
    \/ Score
    \/ Context
    \/ RenderCard
    \/ RenderScoring
    \/ Triage
    \/ RenderMetrics
    \/ RenderUnknown
    \/ Clear
    \/ OtherSession

Spec == Init /\ [][Next]_vars

\* ------------------------------------------------------------------------
\* Direct calls of the pure functions
\* ------------------------------------------------------------------------

\* Scores handed to score_to_band: the whole scale and a margin around it.
Scores == (0 - 5)..105

BandCalls ==
    { [NoCall EXCEPT !.fn = "score_to_band", !.score = s, !.kind = k] :
        s \in Scores, k \in {"risk", "confidence"} }

\* One profile per mapped geometry class, and one of a class the baseline
\* table does not hold.
ScoreInfos ==
    { FormatEntry("B-Rep", "Low"), FormatEntry("Surface", "Medium"),
      FormatEntry("Mesh", "High"), FormatEntry("Parametric", "Medium"),
      FormatEntry("2D Drawing", "Medium"), FormatEntry("Point Cloud", "High") }

\* Mesh metrics dicts as a caller may build them: any component count goes
\* with any triangle count.
HandMadeMesh ==
    { [triangle_count |-> t, bbox_dims |-> << 10000, 10000, 10000 >>,
       bbox_min |-> << 0, 0, 0 >>, bbox_max |-> << 10000, 10000, 10000 >>,
       is_watertight |-> w, component_count |-> c] :
        t \in {1, 500000, 500001, 2000000, 2000001}, w \in BOOLEAN,
        c \in {None} \cup { Some(n) : n \in 1..MaxComponents } }

\* Extents sizes in ten-thousandths: 0, 0.5, 1, 10000, 10001 and 15000 wide,
\* 0 or 200 high, flat or 0.5 deep.
HandMadeSizes ==
    { << x, y, z >> : x \in {0, 5000, 10000, 100000000, 100010000, 150000000},
                      y \in {0, 2000000}, z \in {0, 5000} }

HandMadeCounts ==
    { << >>, << [key |-> "LINE", value |-> 1] >>,
      << [key |-> "SPLINE", value |-> 1] >>,
      << [key |-> "LINE", value |-> 1], [key |-> "SPLINE", value |-> MaxSplines] >> }

\* Drawing metrics dicts as a caller may build them.
HandMadeDxf ==
    { [total_entities |-> MaxSplines + 1, counts_by_type |-> c,
       layer_count |-> 1, extents |-> e] :
        c \in HandMadeCounts,
        e \in {None} \cup { Some([min |-> << 0, 0, 0 >>, max |-> sz, size |-> sz]) :
                              sz \in HandMadeSizes } }

ScoreCalls ==
    { [NoCall EXCEPT !.fn = "compute_scores", !.info = i, !.mesh_metrics = m,
                     !.dxf_metrics = d] :
        i \in ScoreInfos,
        m \in {None} \cup { Some(x) : x \in HandMadeMesh },
        d \in {None} \cup { Some(x) : x \in HandMadeDxf } }

InitFn ==
    /\ pc = "idle"
    /\ material = "Other / Unknown"
    /\ uploaded_file = None
    /\ FreshLocals
    /\ call \in BandCalls \cup ScoreCalls
    /\ ret = None
    /\ tables = ModuleTables
    /\ analyses = 0

CallScoreToBand ==
    /\ call.fn = "score_to_band"
    /\ ret = None
    /\ ret' = Some(score_to_band(call.score, call.kind))
    /\ UNCHANGED << page, call, tables >>

CallComputeScores ==
    /\ call.fn = "compute_scores"
    /\ ret = None
    /\ LET r == compute_scores(call.info, call.mesh_metrics, call.dxf_metrics)
       IN  /\ ret' = Some(r)
           /\ tables' = TablesAfterScoring(tables, call.info, r.risk, r.confidence)
    /\ UNCHANGED << page, call >>

NextFn ==
    \/ CallScoreToBand
    \/ CallComputeScores

SpecFn == InitFn /\ [][NextFn]_vars

\* ------------------------------------------------------------------------
\* Properties
\* ------------------------------------------------------------------------

\* The positions of a script run at which compute_scores has returned.
AfterScore ==
    {"context", "render_card", "render_scoring", "triage", "render_metrics",
     "done"}

\* The value a direct call returned.
Returned(fn) == call.fn = fn /\ ~IsNone(ret)

\* C1: for every score in 0..100 and each axis, score_to_band returns exactly
\* one of the axis's five bands: the first whose ceiling (20, 40, 60, 80,
\* 100) is >= the score.  So 20, 40, 60 and 80 land in the lower band and
\* 100 in the last one.
C1_BandIsFirstCeilingNotExceeded ==
    (Returned("score_to_band") /\ call.score \in 0..100) =>
        LET bands == IF call.kind = "risk" THEN RISK_BANDS ELSE CONFIDENCE_BANDS
            k == IF call.score = 0 THEN 1 ELSE (call.score + 19) \div 20
        IN  /\ Len(bands) = 5
            /\ \A i \in 1..5 : bands[i].ceiling = 20 * i
            /\ Cardinality({ i \in 1..5 : bands[i].label = Val(ret).label }) = 1
            /\ Val(ret).label = bands[k].label
            /\ Val(ret).color = bands[k].color
            /\ call.score <= bands[k].ceiling
            /\ k > 1 => call.score > bands[k - 1].ceiling
            /\ (call.kind = "risk" /\ call.score = 20) => Val(ret).label = "Low"
            /\ (call.kind = "risk" /\ call.score = 21) => Val(ret).label = "Moderate"
            /\ call.score = 100 => Val(ret).label = bands[5].label

\* A boundary score has been classified: risk 20 came back "Low".
C1_Witness ==
    /\ Returned("score_to_band")
    /\ call.kind = "risk"
    /\ call.score = 20
    /\ Val(ret).label = "Low"

\* C2: for every geometry class and every combination of mesh and drawing
\* metrics, compute_scores returns a risk and a confidence in 0..100, each
\* the accumulated value clamped once at the end; an accumulated risk above
\* 100 is reported as exactly 100.
C2_ScoresClampedOnceAtTheEnd ==
    Returned("compute_scores") =>
        LET raw == RawScores(call.info, call.mesh_metrics, call.dxf_metrics)
            cut(x) == IF x > 100 THEN 100 ELSE IF x < 0 THEN 0 ELSE x
        IN  /\ Val(ret).risk \in 0..100
            /\ Val(ret).confidence \in 0..100
            /\ Val(ret).risk = cut(raw.risk)
            /\ Val(ret).confidence = cut(raw.confidence)
            /\ raw.risk > 100 => Val(ret).risk = 100

\* An accumulated risk of 103 (75 + 10 + 8 + 10) has been reported as 100.
C2_Witness ==
    /\ Returned("compute_scores")
    /\ call.info.geometry_class = "Mesh"
    /\ RawScores(call.info, call.mesh_metrics, call.dxf_metrics).risk = 103
    /\ Val(ret).risk = 100

\* The uploaded bytes as the mesh library reads them.
MeshOfUpload == Val(Val(uploaded_file).content.as_mesh)

\* The uploaded bytes as the drawing library reads them.
DxfOfUpload == Val(Val(uploaded_file).content.as_dxf)

\* The load, flattened, is a triangle mesh.
LoadsAsTrimesh(mesh) ==
    /\ mesh.load # "raise"
    /\ (IF mesh.load = "Scene" THEN mesh.dump ELSE mesh.load) = "Trimesh"

\* A mesh file with 2,000,001 triangles, not watertight, whose geometry has
\* 3 connected components, has been analysed and scored.
C3_Case ==
    /\ pc \in AfterScore
    /\ extension \in MESH_EXTENSIONS
    /\ LoadsAsTrimesh(MeshOfUpload)
    /\ MeshOfUpload.faces = 2000001
    /\ ~MeshOfUpload.is_watertight
    /\ MeshOfUpload.pieces = 3

\* C3 as stated: that analysis yields risk 100 (75 + 10 + 8 + 10 = 103,
\* clamped) while the reported component_count is null.
C3_AsStated ==
    C3_Case => /\ risk_score = 100
               /\ ~IsNone(mesh_metrics)
               /\ IsNone(Val(mesh_metrics).component_count)

\* C3, amended: that analysis reports a null component_count, so the
\* multi-component rule does not fire and the risk is 75 + 10 + 10 = 95.
C3_NullComponentsGiveRisk95 ==
    C3_Case => /\ ~IsNone(mesh_metrics)
               /\ Val(mesh_metrics).triangle_count = 2000001
               /\ IsNone(Val(mesh_metrics).component_count)
               /\ risk_score = 95
               /\ \A i \in 1..Len(explanations) :
                      explanations[i].rule # "components"

C3_Witness == C3_Case /\ risk_score = 95 /\ pc = "done"

\* A drawing whose metrics hold exactly 1 SPLINE and extents of size
\* (15000, 200, 0) has been scored and its bands shown.
C4_Case ==
    /\ ~IsNone(scoring_section)
    /\ ~IsNone(dxf_metrics)
    /\ Val(info).geometry_class = "2D Drawing"
    /\ DictGet(Val(dxf_metrics).counts_by_type, "SPLINE", 0) = 1
    /\ ~IsNone(Val(dxf_metrics).extents)
    /\ Val(Val(dxf_metrics).extents).size = << 15000 * Scale, 200 * Scale, 0 >>

\* C4 as stated: risk 60 in band "Elevated", confidence 45 in band "Low".
C4_AsStated ==
    C4_Case => /\ risk_score = 60
               /\ Val(scoring_section).risk_label = "Elevated"
               /\ confidence_score = 45
               /\ Val(scoring_section).conf_label = "Low"

\* C4, amended: risk = 45 + 10 + 5 = 60 in risk band "Elevated", and
\* confidence = 50 - 5 = 45 in confidence band "Medium" (the band of 41..60).
C4_Risk60ElevatedConfidence45Medium ==
    C4_Case => /\ risk_score = 60
               /\ Val(scoring_section).risk_label = "Elevated"
               /\ confidence_score = 45
               /\ Val(scoring_section).conf_label = "Medium"

C4_Witness == C4_Case /\ risk_score = 60 /\ confidence_score = 45

\* The mesh extractor has been called in this script run.
MeshExtracted ==
    \E i \in 1..Len(calls) : calls[i] = "parse_mesh_metrics"

\* The drawing extractor has been called in this script run.
DxfExtracted ==
    \E i \in 1..Len(calls) : calls[i] = "parse_dxf_metrics"

\* C5: parse_mesh_metrics returns a metrics record only for a non-empty
\* loaded mesh, and for every non-empty triangle mesh it loads and measures;
\* a mesh with no triangle always yields a failure string, so every record
\* has triangle_count >= 1.
C5_RecordIffMeshNonEmpty ==
    MeshExtracted =>
        /\ ~IsNone(mesh_metrics) =>
               /\ Val(mesh_metrics).triangle_count >= 1
               /\ Val(mesh_metrics).triangle_count = MeshOfUpload.faces
               /\ LoadsAsTrimesh(MeshOfUpload)
        /\ MeshOfUpload.faces = 0 =>
               /\ IsNone(mesh_metrics)
               /\ ~IsNone(mesh_error)
        /\ ( /\ LoadsAsTrimesh(MeshOfUpload)
             /\ MeshOfUpload.faces >= 1
             /\ ~( MeshOfUpload.split_raises
                   /\ MeshOfUpload.faces <= COMPONENT_SPLIT_MAX_TRIANGLES ) )
           => ~IsNone(mesh_metrics)

\* A triangle mesh with vertices but no face has been turned down.
C5_Witness ==
    /\ MeshExtracted
    /\ LoadsAsTrimesh(MeshOfUpload)
    /\ MeshOfUpload.vertices > 0
    /\ MeshOfUpload.faces = 0
    /\ mesh_error = Some("Mesh contains no geometry (0 vertices).")

\* The suffix of the upload, lower-cased and with aliases resolved, is a key
\* of the format table.
KnownFormat ==
    LET ext == Lower(Val(uploaded_file).name)
    IN  DictHas(FORMAT_KB, DictGet(EXTENSION_TO_FORMAT, ext, ext))

\* C6: for an upload whose suffix resolves to no key of the format table the
\* page shows the unknown-format notice and nothing else: no extractor,
\* compute_scores, compute_contextual_risk or build_triage_summary is
\* called and no score, baseline or other, is computed or shown.
C6_UnknownFormatIsNeverScored ==
    (pc \notin {"idle", "classify"} /\ ~KnownFormat) =>
        /\ pc \in {"unknown", "done"}
        /\ IsNone(info)
        /\ calls = << "get_format_info" >>
        /\ explanations = << >>
        /\ IsNone(contextual_risk)
        /\ IsNone(scoring_section)
        /\ IsNone(triage_text)
        /\ IsNone(mesh_metrics) /\ IsNone(dxf_metrics)
        /\ \A i \in 1..Len(screen) : screen[i] = "unknown_format"
        /\ pc = "done" => screen = << "unknown_format" >>

\* The analysis of a .xyz file has ended on the unknown-format notice.
C6_Witness ==
    /\ pc = "done"
    /\ Val(uploaded_file).name = ".xyz"
    /\ screen = << "unknown_format" >>

\* C7: when the extraction of a recognised mesh or DXF file fails, the
\* failure string is kept and shown as a warning, compute_scores still runs
\* with both metrics absent, risk and confidence are the baseline of the
\* geometry class with the baseline line as the only explanation, and the
\* triage summary is still produced.
C7_FailedExtractionScoresBaseline ==
    (~IsNone(mesh_error) \/ ~IsNone(dxf_error)) =>
        LET b == Baseline(Val(info).geometry_class)
            shown(x) == \E i \in 1..Len(screen) : screen[i] = x
            called(f) == \E i \in 1..Len(calls) : calls[i] = f
        IN  /\ IsNone(mesh_metrics) /\ IsNone(dxf_metrics)
            /\ pc \in {"score"} \cup AfterScore
            /\ pc \in AfterScore =>
                   /\ called("compute_scores")
                   /\ risk_score = b.risk
                   /\ confidence_score = b.confidence
                   /\ risk_score = SCORE_BASELINES[Val(info).geometry_class][1]
                   /\ confidence_score = SCORE_BASELINES[Val(info).geometry_class][2]
                   /\ Len(explanations) = 1
                   /\ explanations[1].rule = "baseline"
            /\ pc = "done" =>
                   /\ ~IsNone(triage_text)
                   /\ Val(triage_text).issues = << >>
                   /\ shown("scoring")
                   /\ shown("triage_summary")
                   /\ shown("warning")

\* The analysis of a mesh file that failed to parse has ended with its
\* baseline scores, its triage summary and its warning.
C7_Witness ==
    /\ pc = "done"
    /\ mesh_error = Some("Mesh parsing failed")
    /\ risk_score = 75
    /\ confidence_score = 25
    /\ ~IsNone(triage_text)

\* An extractor's result is a metrics record or a failure string.
RecordXorString(result) ==
    /\ result.kind \in {"dict", "str"}
    /\ result.kind = "dict" => (~IsNone(result.metrics) /\ result.message = "")
    /\ result.kind = "str" => (IsNone(result.metrics) /\ result.message # "")

\* C8: parse_mesh_metrics and parse_dxf_metrics never raise: whatever the
\* bytes, a load or parse exception, an unsupported type and empty geometry
\* included, each returns a metrics record or a failure string, never both
\* and never neither, and the page that called them goes on.  Every upload
\* is put to both extractors as it arrives, whatever its extension.
C8_ExtractorsNeverRaise ==
    /\ pc # "crashed"
    /\ (pc = "classify" /\ ~IsNone(Val(uploaded_file).content.as_mesh)) =>
           RecordXorString(parse_mesh_metrics(MeshOfUpload, Lower(Val(uploaded_file).name)))
    /\ (pc = "classify" /\ ~IsNone(Val(uploaded_file).content.as_dxf)) =>
           RecordXorString(parse_dxf_metrics(DxfOfUpload))
    /\ MeshExtracted => (IsNone(mesh_metrics) # IsNone(mesh_error))
    /\ DxfExtracted => (IsNone(dxf_metrics) # IsNone(dxf_error))

\* A drawing whose bytes the parser rejects has been analysed: the page
\* holds the failure string and has gone on to score.
C8_Witness ==
    /\ DxfExtracted
    /\ DxfOfUpload.read = "raise"
    /\ dxf_error = Some("DXF parsing failed")
    /\ pc = "done"

\* The rank of an explanation line in the fixed rule order.
RuleRank(rule) ==
    CASE rule = "baseline" -> 0
      [] rule = "non_watertight" -> 1
      [] rule = "components" -> 2
      [] rule \in {"very_high_triangles", "high_triangles"} -> 3
      [] rule = "splines" -> 4
      [] rule \in {"very_large_extents", "very_small_extents"} -> 5
      [] OTHER -> 6

\* The ranks of the adjustment rules whose condition holds for a call.
RulesFired(mesh, dxf) ==
    LET max_dim == Max2(Val(Val(dxf).extents).size[1], Val(Val(dxf).extents).size[2])
    IN  { r \in 1..5 :
            \/ r = 1 /\ ~IsNone(mesh) /\ ~Val(mesh).is_watertight
            \/ r = 2 /\ ~IsNone(mesh) /\ ~IsNone(Val(mesh).component_count)
                     /\ Val(Val(mesh).component_count) > 1
            \/ r = 3 /\ ~IsNone(mesh) /\ Val(mesh).triangle_count > 500000
            \/ r = 4 /\ ~IsNone(dxf)
                     /\ DictGet(Val(dxf).counts_by_type, "SPLINE", 0) > 0
            \/ r = 5 /\ ~IsNone(dxf) /\ ~IsNone(Val(dxf).extents)
                     /\ (max_dim > 10000 * Scale \/ (0 < max_dim /\ max_dim < Scale)) }

\* C10: the explanation list of compute_scores is one baseline line followed
\* by exactly one line per adjustment rule that fired, in the fixed order
\* non-watertight, multi-component, triangle count, splines, extents; a
\* rule whose condition is false writes nothing.
C10_OneLinePerFiredRuleInOrder ==
    Returned("compute_scores") =>
        LET e == Val(ret).explanations
            fired == RulesFired(call.mesh_metrics, call.dxf_metrics)
        IN  /\ Len(e) = 1 + Cardinality(fired)
            /\ e[1].rule = "baseline"
            /\ e[1].gc = call.info.geometry_class
            /\ \A i \in 2..Len(e) : RuleRank(e[i].rule) \in fired
            /\ \A i \in 1..(Len(e) - 1) : RuleRank(e[i].rule) < RuleRank(e[i + 1].rule)
            /\ \A r \in fired : \E i \in 2..Len(e) : RuleRank(e[i].rule) = r

\* All five rules have fired: six lines, the last one about the extents.
C10_Witness ==
    /\ Returned("compute_scores")
    /\ Len(Val(ret).explanations) = 6
    /\ RuleRank(Val(ret).explanations[6].rule) = 5
    /\ RuleRank(Val(ret).explanations[2].rule) = 1

\* compute_contextual_risk has returned in this script run.
AfterContext ==
    /\ pc \in {"render_card", "render_scoring", "triage", "render_metrics", "done"}
    /\ ~IsNone(info)

\* C11 as stated: the contextual risk label of a file is resolved from its
\* extension, its geometry class and the workflow, independently of the
\* numeric risk score: whatever score the file had been given, its label
\* would be the one it has.
C11_AsStated ==
    AfterContext =>
        \A s \in 0..100 : compute_contextual_risk(s) = Val(contextual_risk)

\* C11, amended: the contextual risk label is the risk band of the numeric
\* risk score, the first band whose ceiling (20, 40, 60, 80, 100) the score
\* does not exceed; it is one of Low, Moderate, Elevated, High, Severe,
\* never "Medium", and it is the label the scoring section shows next to the
\* risk score.
C11_ContextualRiskIsTheRiskBandOfTheScore ==
    AfterContext =>
        LET k == IF risk_score = 0 THEN 1 ELSE (risk_score + 19) \div 20
        IN  /\ ~IsNone(contextual_risk)
            /\ risk_score \in 0..100
            /\ Val(contextual_risk) = RISK_BANDS[k].label
            /\ Val(contextual_risk) \in {"Low", "Moderate", "Elevated", "High", "Severe"}
            /\ ~IsNone(scoring_section) =>
                   Val(scoring_section).risk_label = Val(contextual_risk)

\* A mesh file whose format has the baseline label "High" was scored 85 and
\* its contextual label is "Severe": the label followed the score.
C11_Witness ==
    /\ pc = "done"
    /\ extension = ".stl"
    /\ Val(info).quote_risk_baseline = "High"
    /\ risk_score = 85
    /\ contextual_risk = Some("Severe")

\* build_triage_summary has returned in this script run.
AfterTriage == pc \in {"render_metrics", "done"} /\ ~IsNone(triage_text)

\* The risk labels a call of build_triage_summary may be given.
RiskLabels == { RISK_BANDS[i].label : i \in 1..Len(RISK_BANDS) }

\* The second sentences of calls that share the geometry class of this
\* run's call and take their material from ms, with any risk label and with
\* or without this run's metrics.
SecondSentences(ms) ==
    { build_triage_summary(Val(info), cr, m, mm, dm).next_ask :
        cr \in RiskLabels, m \in ms,
        mm \in {None, mesh_metrics}, dm \in {None, dxf_metrics} }

\* C12 as stated: the second triage sentence is determined solely by the
\* geometry class: every call with the geometry class of this run's call
\* gets this run's second sentence, whatever its material, risk label and
\* metrics.
C12_AsStated ==
    AfterTriage => SecondSentences(Materials) = {Val(triage_text).next_ask}

\* C12, amended: the triage paragraph is a first sentence followed by one
\* recommendation that is determined by the geometry class and by whether
\* the material is "Other / Unknown": units and STEP or native CAD for Mesh,
\* dimensions, tolerances and thickness for 2D Drawing, tolerances and
\* finish for any other class, each extended by a request to confirm the
\* material when the material is unknown.  Calls with the same geometry
\* class and the same known-or-unknown material get the same second
\* sentence whatever the risk label and the metrics are.
C12_NextAskByClassAndUnknownMaterial ==
    AfterTriage =>
        LET t == Val(triage_text)
            gc == Val(info).geometry_class
            unknown == material = "Other / Unknown"
            alike == { m \in Materials : (m = "Other / Unknown") <=> unknown }
        IN  /\ t.geometry_class = gc
            /\ (gc = "Mesh" /\ ~unknown) =>
                   t.next_ask = "Confirm units and request STEP or native CAD"
            /\ (gc = "Mesh" /\ unknown) =>
                   t.next_ask = "Confirm units and request STEP or native CAD; also confirm material"
            /\ (gc = "2D Drawing" /\ ~unknown) =>
                   t.next_ask = "Confirm dimensions, tolerances, thickness"
            /\ (gc = "2D Drawing" /\ unknown) =>
                   t.next_ask = "Confirm dimensions, tolerances, thickness; also confirm material"
            /\ (gc \notin {"Mesh", "2D Drawing"} /\ ~unknown) =>
                   t.next_ask = "Confirm tolerances and surface finish"
            /\ (gc \notin {"Mesh", "2D Drawing"} /\ unknown) =>
                   t.next_ask = "Confirm tolerances, surface finish, material"
            /\ SecondSentences(alike) = {t.next_ask}

\* A drawing with unknown material was triaged: its second sentence is the
\* drawing's recommendation with the request to confirm the material.
C12_Witness ==
    /\ AfterTriage
    /\ Val(info).geometry_class = "2D Drawing"
    /\ material = "Other / Unknown"
    /\ Val(triage_text).next_ask =
           "Confirm dimensions, tolerances, thickness; also confirm material"

\* The issue flags that are true for the metrics, in the order not
\* watertight, several components, splines.
TrueFlags(mesh, dxf) ==
    LET f1 == ~IsNone(mesh) /\ ~Val(mesh).is_watertight
        f2 == ~IsNone(mesh) /\ ~IsNone(Val(mesh).component_count)
                 /\ Val(Val(mesh).component_count) > 1
        f3 == ~IsNone(dxf) /\ DictGet(Val(dxf).counts_by_type, "SPLINE", 0) > 0
    IN  SelectSeq(<< 1, 2, 3 >>,
                  LAMBDA k : (k = 1 /\ f1) \/ (k = 2 /\ f2) \/ (k = 3 /\ f3))

\* The place of an issue flag in the order of sentence 1.
FlagRank(flag) ==
    CASE flag = "mesh is not watertight" -> 1
      [] flag = "disconnected components detected" -> 2
      [] flag = "splines present that may need conversion for CAM" -> 3
      [] OTHER -> 4

\* C13: the first triage sentence names the adjusted risk label if and only
\* if the contextual risk label differs from the format's baseline risk
\* label, and it appends exactly the issue flags that are true (mesh not
\* watertight, component_count present and > 1, SPLINE count > 0) in that
\* order, and nothing when no flag is true.
C13_AdjustedIffDifferentAndTrueFlagsInOrder ==
    AfterTriage =>
        LET t == Val(triage_text)
            flags == TrueFlags(mesh_metrics, dxf_metrics)
        IN  /\ ~IsNone(t.adjusted_to) <=>
                   Val(contextual_risk) # Val(info).quote_risk_baseline
            /\ ~IsNone(t.adjusted_to) =>
                   Val(t.adjusted_to) = LowerLabel(Val(contextual_risk))
            /\ Len(t.issues) = Len(flags)
            /\ \A i \in 1..Len(flags) : FlagRank(t.issues[i].flag) = flags[i]
            /\ \A i \in 1..Len(t.issues) :
                   FlagRank(t.issues[i].flag) = 2 =>
                       t.issues[i].n = Val(Val(mesh_metrics).component_count)

\* An open mesh of several bodies was triaged with a risk above its
\* format's baseline: sentence 1 names "severe" and carries the two mesh
\* flags in order.
C13_Witness ==
    /\ AfterTriage
    /\ Val(triage_text).adjusted_to = Some("severe")
    /\ Len(Val(triage_text).issues) = 2
    /\ Val(triage_text).issues[1].flag = "mesh is not watertight"
    /\ Val(triage_text).issues[2].flag = "disconnected components detected"

\* compute_scores has returned in this script run.
Scored == pc \in AfterScore /\ ~IsNone(info)

C15_ComponentCountIffAtMostCutoff ==
    (MeshExtracted /\ ~IsNone(mesh_metrics)) =>
        LET m == Val(mesh_metrics)
        IN  /\ m.triangle_count = MeshOfUpload.faces
            /\ ~IsNone(m.component_count) <=> m.triangle_count <= 1000000
            /\ IsNone(m.component_count) <=> m.triangle_count > 1000000
            /\ ~IsNone(m.component_count) =>
                   Val(m.component_count) = MeshOfUpload.pieces

\* A mesh of exactly 1,000,000 triangles in three bodies was measured: its
\* component_count is 3.
C15_Witness ==
    /\ MeshExtracted
    /\ ~IsNone(mesh_metrics)
    /\ Val(mesh_metrics).triangle_count = 1000000
    /\ Val(mesh_metrics).component_count = Some(3)

\* C16: every consumer of mesh metrics treats a null component_count as not
\* computed: compute_scores writes no multi-component line and adds no 8,
\* build_triage_summary emits no component flag, and the metrics section
\* shows "(skipped for performance)" and no number; a count that is present
\* is shown as that number.
C16_NullComponentCountIsNotComputed ==
    (pc = "done" /\ ~IsNone(mesh_metrics)) =>
        LET m == Val(mesh_metrics)
            shown == Val(metrics_section).components
            nw == IF m.is_watertight THEN 0 ELSE 10
            t == IF m.triangle_count > 2000000 THEN 10
                 ELSE IF m.triangle_count > 500000 THEN 5 ELSE 0
        IN  /\ ~IsNone(metrics_section)
            /\ IsNone(m.component_count) =>
                   /\ \A i \in 1..Len(explanations) : explanations[i].rule # "components"
                   /\ risk_score = Min2(100, 75 + nw + t)
                   /\ \A i \in 1..Len(Val(triage_text).issues) :
                          Val(triage_text).issues[i].flag # "disconnected components detected"
                   /\ shown.text = "(skipped for performance)"
                   /\ IsNone(shown.number)
            /\ ~IsNone(m.component_count) =>
                   /\ shown.number = m.component_count
                   /\ shown.text # "(skipped for performance)"

\* An open mesh above the cutoff, made of three bodies, was analysed: its
\* count is null, the risk is 75 + 10 + 5 and the section shows the skip
\* notice.
C16_Witness ==
    /\ pc = "done"
    /\ ~IsNone(mesh_metrics)
    /\ MeshOfUpload.pieces = 3
    /\ IsNone(Val(mesh_metrics).component_count)
    /\ risk_score = 90
    /\ Val(metrics_section).components.text = "(skipped for performance)"

\* The baseline pair the scoring contract gives a geometry class.
BaselinePair(gc) ==
    CASE gc = "B-Rep" -> << 15, 85 >>
      [] gc = "Surface" -> << 40, 55 >>
      [] gc = "Mesh" -> << 75, 25 >>
      [] gc = "Parametric" -> << 20, 80 >>
      [] gc = "2D Drawing" -> << 45, 50 >>
      [] OTHER -> << 50, 50 >>

\* clamp to 0..100, written with comparisons.
Clamped(x) == IF x < 0 THEN 0 ELSE IF x > 100 THEN 100 ELSE x

\* The number of explanation lines a rule wrote.
Lines(e, rules) == Cardinality({ i \in 1..Len(e) : e[i].rule \in rules })

\* C17: for any mesh metrics record and baseline (b_r, b_c), with no drawing
\* metrics, compute_scores returns risk = clamp(b_r + 10[not watertight]
\* + 8[component_count non-null and > 1] + T) and confidence = clamp(b_c
\* - 10[not watertight]), where T is 10 above 2,000,000 triangles, 5 above
\* 500,000 and up to 2,000,000, and 0 otherwise: the two triangle
\* adjustments are never both applied, and exactly 500,000 and exactly
\* 2,000,000 take the lower case.
C17_MeshScoreIsBaselinePlusFiredRules ==
    (Returned("compute_scores") /\ ~IsNone(call.mesh_metrics)
        /\ IsNone(call.dxf_metrics)) =>
        LET m == Val(call.mesh_metrics)
            b == BaselinePair(call.info.geometry_class)
            tri == m.triangle_count
            nw == IF m.is_watertight THEN 0 ELSE 10
            mc == IF m.component_count # None /\ Val(m.component_count) > 1
                  THEN 8 ELSE 0
            T == IF tri > 2000000 THEN 10
                 ELSE IF 500000 < tri /\ tri <= 2000000 THEN 5 ELSE 0
            e == Val(ret).explanations
        IN  /\ Val(ret).risk = Clamped(b[1] + nw + mc + T)
            /\ Val(ret).confidence = Clamped(b[2] - nw)
            /\ Lines(e, {"very_high_triangles", "high_triangles"}) <= 1
            /\ Lines(e, {"very_high_triangles"}) = 1 <=> tri > 2000000
            /\ Lines(e, {"high_triangles"}) = 1 <=> (500000 < tri /\ tri <= 2000000)
            /\ tri = 500000 => T = 0
            /\ tri = 2000000 => T = 5

\* A watertight one-body Parametric mesh record of exactly 2,000,000
\* triangles was scored 20 + 5.
C17_Witness ==
    /\ Returned("compute_scores")
    /\ IsNone(call.dxf_metrics)
    /\ ~IsNone(call.mesh_metrics)
    /\ call.info.geometry_class = "Parametric"
    /\ Val(call.mesh_metrics).triangle_count = 2000000
    /\ Val(call.mesh_metrics).is_watertight
    /\ Val(call.mesh_metrics).component_count = Some(1)
    /\ Val(ret).risk = 25
    /\ Val(ret).confidence = 80

\* The same drawing metrics with another depth.
WithDepth(d, z) ==
    IF IsNone(d.extents) THEN d
    ELSE LET sz == Val(d.extents).size
         IN  [d EXCEPT !.extents =
                 Some([Val(d.extents) EXCEPT !.size = << sz[1], sz[2], z >>])]

\* C18: with no mesh metrics, the drawing rules add 10 to risk and take 5
\* from confidence if and only if the SPLINE count is > 0, and add 5 to risk
\* at most once for the extents, if and only if the extents are present and
\* m = max(size.x, size.y) is > 10,000 or 0 < m < 1; no extents adjustment
\* when the extents are absent, when m = 0 and when 1 <= m <= 10,000; size.z
\* never influences the score.
C18_DrawingScoreIsBaselinePlusFiredRules ==
    (Returned("compute_scores") /\ IsNone(call.mesh_metrics)
        /\ ~IsNone(call.dxf_metrics)) =>
        LET d == Val(call.dxf_metrics)
            b == BaselinePair(call.info.geometry_class)
            s == DictGet(d.counts_by_type, "SPLINE", 0) > 0
            sx == Val(d.extents).size[1]
            sy == Val(d.extents).size[2]
            m == IF sx >= sy THEN sx ELSE sy
            x == ~IsNone(d.extents)
                     /\ (m > 10000 * Scale \/ (0 < m /\ m < 1 * Scale))
            e == Val(ret).explanations
        IN  /\ Val(ret).risk = Clamped(b[1] + (IF s THEN 10 ELSE 0)
                                            + (IF x THEN 5 ELSE 0))
            /\ Val(ret).confidence = Clamped(b[2] - (IF s THEN 5 ELSE 0))
            /\ Lines(e, {"splines"}) = (IF s THEN 1 ELSE 0)
            /\ Lines(e, {"very_large_extents", "very_small_extents"})
                   = (IF x THEN 1 ELSE 0)
            /\ \A z \in {0, 5000, 50000, 200000000} :
                   LET other == compute_scores(call.info, None, Some(WithDepth(d, z)))
                   IN  /\ other.risk = Val(ret).risk
                       /\ other.confidence = Val(ret).confidence

\* A drawing record with no width and no height but a depth of 0.5 was
\* scored at the drawing baseline: the depth did not count as a small
\* extent.
C18_Witness ==
    /\ Returned("compute_scores")
    /\ IsNone(call.mesh_metrics)
    /\ ~IsNone(call.dxf_metrics)
    /\ call.info.geometry_class = "2D Drawing"
    /\ ~IsNone(Val(call.dxf_metrics).extents)
    /\ Val(Val(call.dxf_metrics).extents).size = << 0, 0, 5000 >>
    /\ DictGet(Val(call.dxf_metrics).counts_by_type, "SPLINE", 0) = 0
    /\ Val(ret).risk = 45
    /\ Val(ret).confidence = 50

\* C19: the baseline pair comes from the geometry class alone: (15, 85)
\* B-Rep, (40, 55) Surface, (75, 25) Mesh, (20, 80) Parametric, (45, 50)
\* 2D Drawing and (50, 50) for any other class; with mesh and drawing
\* metrics both absent the result is exactly that pair and the explanation
\* list is the single baseline line.
C19_BaselineByClassAndFallback ==
    Returned("compute_scores") =>
        LET gc == call.info.geometry_class
            e == Val(ret).explanations
            b == BaselinePair(gc)
        IN  /\ e[1].rule = "baseline"
            /\ e[1].gc = gc
            /\ << e[1].a, e[1].b >> = b
            /\ gc \in MappedClasses => SCORE_BASELINES[gc] = b
            /\ (IsNone(call.mesh_metrics) /\ IsNone(call.dxf_metrics)) =>
                   /\ Val(ret).risk = b[1]
                   /\ Val(ret).confidence = b[2]
                   /\ Len(e) = 1

\* A profile of a class the table does not hold was scored without metrics:
\* 50 and 50, one line.
C19_Witness ==
    /\ Returned("compute_scores")
    /\ call.info.geometry_class = "Point Cloud"
    /\ IsNone(call.mesh_metrics)
    /\ IsNone(call.dxf_metrics)
    /\ Val(ret).risk = 50
    /\ Val(ret).confidence = 50
    /\ Len(Val(ret).explanations) = 1

\* The place of a type in the allow-list, 0 for a type it does not hold.
TrackedIndex(t) ==
    IF \E i \in 1..Len(DXF_TRACKED_TYPES) : DXF_TRACKED_TYPES[i] = t
    THEN CHOOSE i \in 1..Len(DXF_TRACKED_TYPES) : DXF_TRACKED_TYPES[i] = t
    ELSE 0

\* The number of entities of a type in a model space.
Occurrences(entities, t) ==
    Cardinality({ i \in 1..Len(entities) : entities[i].type = t })

\* C20: parse_dxf_metrics visits each entity of the model space exactly
\* once: total_entities is the number of entities, counts_by_type[t] is the
\* number of entities of type t for each allow-listed type that occurs, an
\* entity of any other type adds to the total only, and the keys of
\* counts_by_type are in the order of the allow-list whatever the order the
\* types were met in.
C20_EntitiesCountedOnceInTrackedOrder ==
    (DxfExtracted /\ ~IsNone(dxf_metrics)) =>
        LET es == DxfOfUpload.entities
            counts == Val(dxf_metrics).counts_by_type
        IN  /\ Val(dxf_metrics).total_entities = Len(es)
            /\ \A t \in EntityTypes \cup { DXF_TRACKED_TYPES[i] : i \in 1..Len(DXF_TRACKED_TYPES) } :
                   /\ DictHas(counts, t) <=> (TrackedIndex(t) > 0 /\ Occurrences(es, t) > 0)
                   /\ DictHas(counts, t) => DictGet(counts, t, 0) = Occurrences(es, t)
            /\ \A i \in 1..Len(counts) : TrackedIndex(counts[i].key) > 0
            /\ \A i \in 1..(Len(counts) - 1) :
                   TrackedIndex(counts[i].key) < TrackedIndex(counts[i + 1].key)

\* A drawing whose model space holds a SPLINE and then a LINE was measured:
\* two entities, and the keys are LINE, SPLINE.
C20_Witness ==
    /\ DxfExtracted
    /\ ~IsNone(dxf_metrics)
    /\ Len(DxfOfUpload.entities) = 2
    /\ DxfOfUpload.entities[1].type = "SPLINE"
    /\ DxfOfUpload.entities[2].type = "LINE"
    /\ Val(dxf_metrics).total_entities = 2
    /\ Val(dxf_metrics).counts_by_type =
           << [key |-> "LINE", value |-> 1], [key |-> "SPLINE", value |-> 1] >>

\* C21: in parse_dxf_metrics bytes that are not valid UTF-8 are decoded as
\* Latin-1 and parsing goes on with that text: the decoding never raises and
\* never makes the extraction fail, so a failure string comes back exactly
\* when reading or measuring the decoded text fails, whichever decoding was
\* used.
C21_DecodingNeverFailsTheExtraction ==
    DxfExtracted =>
        LET doc == DxfOfUpload
            fails == doc.read = "raise" \/ doc.bbox = "raise"
        IN  /\ pc # "crashed"
            /\ DecodeText(doc).kind = "text"
            /\ DecodeText(doc).codec = (IF doc.utf8 THEN "utf-8" ELSE "latin-1")
            /\ ~IsNone(dxf_error) <=> fails
            /\ ~IsNone(dxf_metrics) <=> ~fails
            /\ ~IsNone(dxf_error) => Val(dxf_error) = "DXF parsing failed"

\* A drawing whose bytes are not UTF-8 was read and measured: two entities
\* in its metrics record and no error.
C21_Witness ==
    /\ DxfExtracted
    /\ ~DxfOfUpload.utf8
    /\ ~IsNone(dxf_metrics)
    /\ IsNone(dxf_error)
    /\ Val(dxf_metrics).total_entities = 2

\* How many of the values are set.
HowManySet(values) ==
    Cardinality({ i \in 1..Len(values) : ~IsNone(values[i]) })

\* C22: in every analysis of the Analyze page at most one of mesh_metrics
\* and dxf_metrics is set when compute_scores is called, and at most one of
\* mesh_metrics, mesh_error, dxf_metrics and dxf_error is set at any moment;
\* so the explanation lines of one file never hold a mesh rule and a
\* drawing rule together.
C22_AtMostOneModality ==
    /\ HowManySet(<< mesh_metrics, mesh_error, dxf_metrics, dxf_error >>) <= 1
    /\ pc = "score" => HowManySet(<< mesh_metrics, dxf_metrics >>) <= 1
    /\ (~IsNone(mesh_metrics) \/ ~IsNone(mesh_error)) => extension \in MESH_EXTENSIONS
    /\ (~IsNone(dxf_metrics) \/ ~IsNone(dxf_error)) => extension = ".dxf"
    /\ ~ /\ \E i \in 1..Len(explanations) : RuleRank(explanations[i].rule) \in {1, 2, 3}
         /\ \E i \in 1..Len(explanations) : RuleRank(explanations[i].rule) \in {4, 5}

\* A drawing with a spline is about to be scored: only dxf_metrics is set.
C22_Witness ==
    /\ pc = "score"
    /\ IsNone(mesh_metrics)
    /\ IsNone(mesh_error)
    /\ IsNone(dxf_error)
    /\ ~IsNone(dxf_metrics)
    /\ DictGet(Val(dxf_metrics).counts_by_type, "SPLINE", 0) > 0

\* The geometry class the format table gives a lower-cased suffix once its
\* alias is resolved, "" for a suffix it does not hold.
ClassOfExtension(ext) ==
    CASE ext \in {".step", ".stp"} -> "B-Rep"
      [] ext \in {".iges", ".igs"} -> "Surface"
      [] ext \in {".stl", ".obj"} -> "Mesh"
      [] ext \in {".sldprt", ".sldasm", ".prt", ".catpart"} -> "Parametric"
      [] ext \in {".dwg", ".dxf"} -> "2D Drawing"
      [] OTHER -> ""

\* C23: the geometry class and the baseline used for a file are a function
\* of its extension only: whatever the content of the upload and whatever
\* metrics were extracted from it, the class is the one the format table
\* gives the extension and the first explanation line is the baseline line
\* of that class; a DXF whose extents have depth is still scored as a
\* 2D Drawing.
C23_ClassAndBaselineByExtensionOnly ==
    Scored =>
        LET gc == ClassOfExtension(extension)
        IN  /\ extension = Lower(Val(uploaded_file).name)
            /\ Val(info).geometry_class = gc
            /\ explanations[1].rule = "baseline"
            /\ explanations[1].gc = gc
            /\ << explanations[1].a, explanations[1].b >> = BaselinePair(gc)

\* A .dxf upload whose extents are 5 deep was scored from the 2D Drawing
\* baseline.
C23_Witness ==
    /\ Scored
    /\ extension = ".dxf"
    /\ ~IsNone(dxf_metrics)
    /\ ~IsNone(Val(dxf_metrics).extents)
    /\ Val(Val(dxf_metrics).extents).size[3] > 0
    /\ Val(info).geometry_class = "2D Drawing"
    /\ explanations[1].a = 45
    /\ explanations[1].b = 50

\* The first place of x in a sequence, 0 when it does not occur.
Pos(seq, x) ==
    IF \E i \in 1..Len(seq) : seq[i] = x
    THEN CHOOSE i \in 1..Len(seq) : seq[i] = x /\ \A j \in 1..(i - 1) : seq[j] # x
    ELSE 0

\* C24: in the Analyze page, for a recognised file, the steps occur in a
\* fixed order: the extraction, if the extension has one, has completed
\* before compute_scores is called, compute_contextual_risk follows
\* compute_scores, and nothing is rendered before both have returned; the
\* triage summary is built from the scores and metrics of the same script
\* run, and the extraction warning, if any, is shown after the scoring
\* section and never in its place.
C24_ExtractThenScoreThenContextThenRender ==
    ~IsNone(info) =>
        LET extract == Max2(Pos(calls, "parse_mesh_metrics"),
                            Pos(calls, "parse_dxf_metrics"))
            score == Pos(calls, "compute_scores")
            context == Pos(calls, "compute_contextual_risk")
            triage == Pos(calls, "build_triage_summary")
        IN  /\ score > 0 =>
                   /\ (extension \in MESH_EXTENSIONS \cup {".dxf"}) => extract > 0
                   /\ extract < score
                   /\ HowManySet(<< mesh_metrics, mesh_error, dxf_metrics, dxf_error >>)
                          = (IF extract > 0 THEN 1 ELSE 0)
            /\ context > 0 => (score > 0 /\ score < context)
            /\ triage > 0 => (context > 0 /\ context < triage)
            /\ screen # << >> => (score > 0 /\ context > 0)
            /\ ~IsNone(triage_text) =>
                   /\ Val(contextual_risk) = compute_contextual_risk(risk_score)
                   /\ risk_score = compute_scores(Val(info), mesh_metrics, dxf_metrics).risk
                   /\ Val(triage_text) =
                          build_triage_summary(Val(info), Val(contextual_risk),
                                               material, mesh_metrics, dxf_metrics)
            /\ Pos(screen, "warning") > 0 =>
                   /\ Pos(screen, "scoring") > 0
                   /\ Pos(screen, "scoring") < Pos(screen, "warning")
            /\ pc = "done" =>
                   /\ Pos(screen, "scoring") > 0
                   /\ (~IsNone(mesh_error) \/ ~IsNone(dxf_error))
                          <=> Pos(screen, "warning") > 0
                   /\ Pos(screen, "warning") > 0 => screen[Len(screen)] = "warning"

\* A mesh upload whose extraction failed was analysed to the end: the
\* extractor, compute_scores and compute_contextual_risk were called in
\* that order and the warning is the last section, after the scoring
\* section.
C24_Witness ==
    /\ pc = "done"
    /\ ~IsNone(mesh_error)
    /\ calls = << "get_format_info", "parse_mesh_metrics", "compute_scores",
                  "compute_contextual_risk", "build_triage_summary" >>
    /\ screen = << "summary_card", "material_section", "scoring",
                   "triage_summary", "warning" >>

\* C25: for a recognised extension that is neither a mesh extension (.stl,
\* .obj) nor .dxf, .dwg with its class 2D Drawing included, the Analyze page
\* calls no extractor and the scores are exactly the baseline of the
\* geometry class, with a single explanation line and no issue flag in the
\* triage summary.
C25_NoExtractorMeansBaselineOnly ==
    (Scored /\ extension \notin MESH_EXTENSIONS \cup {".dxf"}) =>
        LET b == BaselinePair(Val(info).geometry_class)
        IN  /\ Pos(calls, "parse_mesh_metrics") = 0
            /\ Pos(calls, "parse_dxf_metrics") = 0
            /\ HowManySet(<< mesh_metrics, mesh_error, dxf_metrics, dxf_error >>) = 0
            /\ risk_score = b[1]
            /\ confidence_score = b[2]
            /\ Len(explanations) = 1
            /\ explanations[1].rule = "baseline"
            /\ ~IsNone(triage_text) => Val(triage_text).issues = << >>
            /\ pc = "done" =>
                   screen = << "summary_card", "material_section", "scoring",
                               "triage_summary" >>

\* A .dwg upload was analysed to the end without an extractor: 45 and 50,
\* one explanation line, no issue flag.
C25_Witness ==
    /\ pc = "done"
    /\ extension = ".dwg"
    /\ Val(info).geometry_class = "2D Drawing"
    /\ calls = << "get_format_info", "compute_scores",
                  "compute_contextual_risk", "build_triage_summary" >>
    /\ risk_score = 45
    /\ confidence_score = 50
    /\ Len(explanations) = 1
    /\ Val(triage_text).issues = << >>

\* C26: on mesh metrics produced by parse_mesh_metrics the multi-component
\* adjustment (+8) and the adjustment for more than 2,000,000 triangles
\* (+10) never both fire, because component_count is null whenever
\* triangle_count is above 1,000,000; so the final risk of a file analysed
\* end to end is at most 98 and the upper clamp at 100 changes nothing.
C26_EndToEndRiskAtMost98 ==
    Scored =>
        LET raw == RawScores(Val(info), mesh_metrics, dxf_metrics)
        IN  /\ ~ /\ Lines(explanations, {"components"}) > 0
                 /\ Lines(explanations, {"very_high_triangles"}) > 0
            /\ (~IsNone(mesh_metrics) /\ Val(mesh_metrics).triangle_count > 1000000) =>
                   IsNone(Val(mesh_metrics).component_count)
            /\ risk_score <= 98
            /\ raw.risk <= 100
            /\ raw.risk = risk_score

\* An open mesh of 1,000,000 triangles in three bodies was scored
\* 75 + 10 + 8 + 5 = 98, the largest risk an analysis gives.
C26_Witness ==
    /\ Scored
    /\ ~IsNone(mesh_metrics)
    /\ Val(mesh_metrics).triangle_count = 1000000
    /\ Val(mesh_metrics).component_count = Some(3)
    /\ ~Val(mesh_metrics).is_watertight
    /\ risk_score = 98
    /\ Len(explanations) = 4

\* C27: for every input compute_scores never lowers risk and never raises
\* confidence relative to the baseline: the final risk is >= min(100,
\* baseline risk) and the final confidence is <= the baseline confidence;
\* for the five mapped geometry classes the confidence stays within 15
\* points of its baseline, and the lower clamp at 0 changes nothing on
\* either axis.
C27_RiskOnlyUpConfidenceOnlyDown ==
    Returned("compute_scores") =>
        LET b == BaselinePair(call.info.geometry_class)
            raw == RawScores(call.info, call.mesh_metrics, call.dxf_metrics)
        IN  /\ Val(ret).risk >= Min2(100, b[1])
            /\ Val(ret).confidence <= b[2]
            /\ call.info.geometry_class \in MappedClasses =>
                   Val(ret).confidence >= b[2] - 15
            /\ raw.risk >= 0
            /\ raw.confidence >= 0
            /\ Val(ret).confidence = raw.confidence
            /\ Val(ret).risk = Min2(100, raw.risk)

\* A Mesh profile scored with an open mesh record and a drawing record with
\* splines: the confidence is 25 - 10 - 5 = 10, fifteen below the baseline
\* and still above 0.
C27_Witness ==
    /\ Returned("compute_scores")
    /\ call.info.geometry_class = "Mesh"
    /\ ~IsNone(call.mesh_metrics)
    /\ ~Val(call.mesh_metrics).is_watertight
    /\ ~IsNone(call.dxf_metrics)
    /\ DictGet(Val(call.dxf_metrics).counts_by_type, "SPLINE", 0) > 0
    /\ Val(ret).confidence = 10
    /\ Val(ret).risk = 100

\* The triage summary carries the issue flag.
Flagged(flag) ==
    \E i \in 1..Len(Val(triage_text).issues) : Val(triage_text).issues[i].flag = flag

\* C28: for the same metrics the triage summary and the score explanations
\* agree: the triage text holds the non-watertight flag, the component flag
\* or the spline flag if and only if compute_scores wrote the non-watertight,
\* the multi-component or the splines explanation line, and the component
\* flag names the count the explanation line names.
C28_TriageFlagsMatchExplanations ==
    AfterTriage =>
        /\ Flagged("mesh is not watertight")
               <=> Lines(explanations, {"non_watertight"}) = 1
        /\ Flagged("disconnected components detected")
               <=> Lines(explanations, {"components"}) = 1
        /\ Flagged("splines present that may need conversion for CAM")
               <=> Lines(explanations, {"splines"}) = 1
        /\ Lines(explanations, {"non_watertight", "components", "splines"})
               = Len(Val(triage_text).issues)
        /\ \A i \in 1..Len(explanations) : \A j \in 1..Len(Val(triage_text).issues) :
               (explanations[i].rule = "components"
                   /\ Val(triage_text).issues[j].flag = "disconnected components detected")
               => explanations[i].a = Val(triage_text).issues[j].n

\* A drawing with splines was triaged: the spline flag is in the text and
\* the splines line among the explanations.
C28_Witness ==
    /\ AfterTriage
    /\ Flagged("splines present that may need conversion for CAM")
    /\ Lines(explanations, {"splines"}) = 1
    /\ Len(Val(triage_text).issues) = 1

\* C29: the contextual risk label handed to the triage summary is always
\* one of Low, Moderate, Elevated, High, Severe and equals the band shown
\* for the numeric risk score; as no risk band is labelled "Medium", every
\* format whose quote_risk_baseline is "Medium" gets the "adjusted to"
\* wording in its triage sentence for every possible score, a baseline-only
\* score included.
C29_MediumBaselineIsAlwaysAdjusted ==
    AfterTriage =>
        LET label == Val(contextual_risk)
            medium == Val(info).quote_risk_baseline = "Medium"
        IN  /\ label \in {"Low", "Moderate", "Elevated", "High", "Severe"}
            /\ label = Val(scoring_section).risk_label
            /\ Val(scoring_section).risk_score = risk_score
            /\ medium => Val(triage_text).adjusted_to = Some(LowerLabel(label))
            /\ (medium /\ pc = "done") =>
                   \A other \in { compute_contextual_risk(s) : s \in 0..100 } :
                       ~IsNone(build_triage_summary(Val(info), other,
                                                    material, mesh_metrics,
                                                    dxf_metrics).adjusted_to)

\* An .iges upload, baseline label "Medium", was scored at its baseline 40
\* and triaged: the sentence says adjusted to moderate.
C29_Witness ==
    /\ AfterTriage
    /\ extension = ".iges"
    /\ Val(info).quote_risk_baseline = "Medium"
    /\ risk_score = 40
    /\ Len(explanations) = 1
    /\ Val(triage_text).adjusted_to = Some("moderate")

\* C30: for any .dxf file the Analyze page analyses, the final risk is one
\* of 45, 50, 55, 60 and the final confidence is 45 or 50, so the risk band
\* shown is always "Elevated" and the confidence band always "Medium",
\* whatever the drawing holds and whether or not extraction fails.
C30_DxfIsAlwaysElevatedAndMedium ==
    (Scored /\ extension = ".dxf") =>
        /\ risk_score \in {45, 50, 55, 60}
        /\ confidence_score \in {45, 50}
        /\ ~IsNone(dxf_error) => (risk_score = 45 /\ confidence_score = 50)
        /\ ~IsNone(contextual_risk) => Val(contextual_risk) = "Elevated"
        /\ ~IsNone(scoring_section) =>
               /\ Val(scoring_section).risk_label = "Elevated"
               /\ Val(scoring_section).conf_label = "Medium"

\* A .dxf with splines and ordinary extents was analysed to the end: 55 and
\* 45, shown as Elevated and Medium.
C30_Witness ==
    /\ pc = "done"
    /\ extension = ".dxf"
    /\ risk_score = 55
    /\ confidence_score = 45
    /\ Val(scoring_section).risk_label = "Elevated"
    /\ Val(scoring_section).conf_label = "Medium"

=============================================================================
